---- MODULE Spec2Model ----
(***************************************************************************)
(* Key rotation for the SAIA provider: the APIKeyRotator                   *)
(* (src/providers/api_key_rotator.py) and the rotation-aware request       *)
(* logic of SAIAProvider.generate_content (src/providers/saia.py).         *)
(*                                                                         *)
(* Keys are the integers 1..n in registry order.  Time is an integer       *)
(* clock `now`; the process starts after the epoch, so now >= 1 while the  *)
(* default backoff_until is 0.  Python's None is NoneVal.  The tracker's   *)
(* last_reset_time and last_used_time are written but never read by the    *)
(* program and are left out.                                               *)
(*                                                                         *)
(* api_key_rotator.py ends inside get_next_key, after the                  *)
(* time.sleep(backoff_seconds) of the all-exhausted branch.  What follows  *)
(* in get_next_key (re-evaluation, fallback, strategy selection, returned  *)
(* snapshot), mark_key_exhausted and get_usage_stats are modelled from     *)
(* spec.md sections 4.3 and 4.4.                                           *)
(*                                                                         *)
(* Line 91 of api_key_rotator.py builds each tracker with                  *)
(* KeyUsageTracker(), without the api_key argument the dataclass requires  *)
(* (line 28), so __init__ as written raises TypeError.  The operations are *)
(* modelled on the registry that lines 81-94 describe: the keys in order,  *)
(* each with a tracker holding the dataclass defaults, the cursor at 0.    *)
(***************************************************************************)
EXTENDS Integers, Sequences, FiniteSets, TLC

VARIABLES
    api_keys,        \* APIKeyRotator.api_keys: the ordered key list
    strategy,        \* APIKeyRotator.strategy
    usage_trackers,  \* APIKeyRotator.usage_trackers: key -> KeyUsageTracker
    current_index,   \* APIKeyRotator.current_index: the round-robin cursor
    now,             \* time.time()
    last,            \* history: the last operation, its key argument or result
    req,             \* SAIAProvider: the logical request in flight
    lock,            \* APIKeyRotator._lock: the thread that holds it
    threads,         \* the calling threads: position and locals of each
    order,           \* history: the calls in the order they took effect
    serial,          \* history: the state the calls give when run one by one
    prd,             \* RalphManager.prd: the task list of the Ralph loop
    loop             \* the Ralph loop around RalphManager: its position

vars == <<api_keys, strategy, usage_trackers, current_index, now, last, req,
          lock, threads, order, serial, prd, loop>>

\* The variables of the threaded callers.
threadvars == <<lock, threads, order, serial>>

\* The variables of the Ralph loop (src/ralph_utils.py), and the manager
\* before a PRD is loaded or created: self.prd = None, no loop running.
ralphvars == <<prd, loop>>

NoPRD == [tasks |-> <<>>, passes |-> FALSE, iteration |-> 0, max_iterations |-> 0]

NoLoop == [pc |-> "none", start |-> 0]

----------------------------------------------------------------------------
(* Bounds of the model *)

MaxKeys == 2
MaxTime == 2
RecoveryTime == 3
BackoffSeconds == 1
MaxAttempts == 3
MaxOrder == 9
MaxMarks == 1
MaxCalls == 3

----------------------------------------------------------------------------
(* Program constants *)

ROUND_ROBIN == "round_robin"
LEAST_USED == "least_used"
RANDOM == "random"
RotationStrategy == {ROUND_ROBIN, LEAST_USED, RANDOM}

NoneVal == 0 - 1
DefaultRequestsRemaining == 999999
DefaultRequestsLimit == 1000
FallbackLimit == 1000
ExhaustionThreshold == 10
UnknownKey == 0
\* Variant: the cursor starts on the second key.
InitialIndexOne == 0 + 1

InitialIndex == 0

KeyUsageTracker ==
    [requests_remaining |-> DefaultRequestsRemaining,
     requests_limit     |-> DefaultRequestsLimit,
     is_exhausted       |-> FALSE,
     backoff_until      |-> 0]

Keys == {api_keys[i] : i \in 1..Len(api_keys)}

----------------------------------------------------------------------------
(* Response headers: a mapping from header names to strings; a string is a *)
(* sequence of characters.                                                 *)

DigitChars == {"0", "1", "2", "3", "4", "5", "6", "7", "8", "9"}

DigitVal(c) ==
    CASE c = "0" -> 0 [] c = "1" -> 1 [] c = "2" -> 2 [] c = "3" -> 3
      [] c = "4" -> 4 [] c = "5" -> 5 [] c = "6" -> 6 [] c = "7" -> 7
      [] c = "8" -> 8 [] c = "9" -> 9

RECURSIVE StrToNat(_)
StrToNat(s) ==
    IF s = <<>> THEN 0
    ELSE StrToNat(SubSeq(s, 1, Len(s) - 1)) * 10 + DigitVal(s[Len(s)])

\* int(headers[key]) inside try/except (ValueError, TypeError): the number,
\* or NoneVal when the conversion raises and the field keeps its default.
IntOrNone(s) ==
    IF Len(s) > 0 /\ \A i \in 1..Len(s) : s[i] \in DigitChars
    THEN StrToNat(s)
    ELSE NoneVal

RateLimitHeaderNames ==
    {"x-ratelimit-limit-minute", "x-ratelimit-limit-hour", "x-ratelimit-limit-day",
     "x-ratelimit-remaining-minute", "x-ratelimit-remaining-hour",
     "x-ratelimit-remaining-day", "ratelimit-reset"}

HeaderField(headers, name) ==
    IF name \in DOMAIN headers THEN IntOrNone(headers[name]) ELSE NoneVal

\* The exception int(s) raises for a string s, "none" when it converts.
IntRaises(s) ==
    IF Len(s) > 0 /\ \A i \in 1..Len(s) : s[i] \in DigitChars THEN "none" ELSE "ValueError"

\* float(s) inside try/except (ValueError, TypeError), for strings of digits
\* with at most one decimal point: the number, cut to whole seconds as the
\* clock is, or NoneVal when the conversion raises.
FloatOrNone(s) ==
    LET points == {i \in 1..Len(s) : s[i] = "."}
    IN  IF /\ \A i \in 1..Len(s) : s[i] \in DigitChars \cup {"."}
           /\ Cardinality(points) <= 1
           /\ \E i \in 1..Len(s) : s[i] \in DigitChars
        THEN IF points = {} THEN StrToNat(s)
             ELSE StrToNat(SubSeq(s, 1, (CHOOSE i \in points : TRUE) - 1))
        ELSE NoneVal

\* The exception float(s) raises for a string s, "none" when it converts.
FloatRaises(s) == IF FloatOrNone(s) # NoneVal THEN "none" ELSE "ValueError"

\* Variant: only TypeError is caught.
CatchesTypeErrorOnly == {"TypeError"}

\* except (ValueError, TypeError), lines 130 and 137.
ParserCatches == {"ValueError", "TypeError"}

\* The exception that leaves _parse_rate_limit_headers, "none" when it
\* returns.
ParserRaises(headers) ==
    LET raised ==
            {IntRaises(headers[name]) : name \in RateLimitHeaderNames \cap DOMAIN headers}
            \cup (IF "ratelimit-reset" \in DOMAIN headers
                  THEN {FloatRaises(headers["ratelimit-reset"])} ELSE {})
        uncaught == raised \ (ParserCatches \cup {"none"})
    IN  IF uncaught = {} THEN "none" ELSE CHOOSE e \in uncaught : TRUE

\* time.time() + float(headers["ratelimit-reset"]), lines 134-138.
ResetTime(headers, t) ==
    IF "ratelimit-reset" \in DOMAIN headers /\ FloatOrNone(headers["ratelimit-reset"]) # NoneVal
    THEN t + FloatOrNone(headers["ratelimit-reset"])
    ELSE NoneVal

_parse_rate_limit_headers(headers, t) ==
    [limit_minute     |-> HeaderField(headers, "x-ratelimit-limit-minute"),
     limit_hour       |-> HeaderField(headers, "x-ratelimit-limit-hour"),
     limit_day        |-> HeaderField(headers, "x-ratelimit-limit-day"),
     remaining_minute |-> HeaderField(headers, "x-ratelimit-remaining-minute"),
     remaining_hour   |-> HeaderField(headers, "x-ratelimit-remaining-hour"),
     remaining_day    |-> HeaderField(headers, "x-ratelimit-remaining-day"),
     reset_time       |-> ResetTime(headers, t)]

----------------------------------------------------------------------------
(* APIKeyRotator._update_key_usage.  The result is the trackers it leaves  *)
(* and whether it raised: with remaining = None the comparison             *)
(* `remaining < 10` raises TypeError after the assignments before it.     *)

UsageLimit(rate_limits) ==
    IF rate_limits.limit_minute # NoneVal /\ rate_limits.limit_minute # 0
    THEN rate_limits.limit_minute
    ELSE FallbackLimit

\* A variant whose early return is taken when the minute-window remaining
\* value is absent: a present value is then stored and compared.
UpdateWhenRemainingPresent(tr, api_key, headers, t) ==
    LET rate_limits == _parse_rate_limit_headers(headers, t)
        remaining   == rate_limits.remaining_minute
    IN  IF remaining = NoneVal \/ api_key \notin DOMAIN tr
        THEN [tr |-> tr, raised |-> FALSE]
        ELSE [tr |-> [tr EXCEPT ![api_key].requests_remaining = remaining,
                                ![api_key].requests_limit = UsageLimit(rate_limits),
                                ![api_key].is_exhausted =
                                    (remaining < ExhaustionThreshold)],
              raised |-> FALSE]

\* A variant in which the comparison of line 170 takes an absent value for
\* not low instead of raising: the flag is assigned False.
UpdateTakesNoneForNotLow(tr, api_key, headers, t) ==
    LET rate_limits == _parse_rate_limit_headers(headers, t)
        remaining   == rate_limits.remaining_minute
    IN  IF remaining # NoneVal \/ api_key \notin DOMAIN tr
        THEN [tr |-> tr, raised |-> FALSE]
        ELSE [tr |-> [tr EXCEPT ![api_key].requests_remaining = remaining,
                                ![api_key].requests_limit = UsageLimit(rate_limits),
                                ![api_key].is_exhausted = FALSE],
              raised |-> FALSE]

_update_key_usage(tr, api_key, headers, t) ==
    LET rate_limits == _parse_rate_limit_headers(headers, t)
        remaining   == rate_limits.remaining_minute
        limit       == UsageLimit(rate_limits)
    IN  IF rate_limits.remaining_minute # NoneVal
        THEN [tr |-> tr, raised |-> FALSE]
        ELSE IF api_key \notin DOMAIN tr
        THEN [tr |-> tr, raised |-> FALSE]
        ELSE LET assigned == [tr EXCEPT ![api_key].requests_remaining = remaining,
                                        ![api_key].requests_limit = limit]
             IN  IF remaining = NoneVal
                 THEN [tr |-> assigned, raised |-> TRUE]
                 ELSE [tr |-> [assigned EXCEPT ![api_key].is_exhausted =
                                                   (remaining < ExhaustionThreshold)],
                       raised |-> FALSE]

----------------------------------------------------------------------------
(* APIKeyRotator.get_next_key, lines 184-210: the loop that builds         *)
(* available_keys, and the sleep of the all-exhausted branch.              *)

RECURSIVE AvailableKeysLoop(_, _, _, _, _)
AvailableKeysLoop(keys, i, tr, t, available_keys) ==
    IF i > Len(keys)
    THEN [tr |-> tr, available_keys |-> available_keys]
    ELSE LET key == keys[i] IN
         IF key \notin DOMAIN tr
         THEN AvailableKeysLoop(keys, i + 1, tr, t, Append(available_keys, key))
         ELSE IF ~tr[key].is_exhausted
         THEN LET reset == IF t > tr[key].backoff_until
                           THEN [tr EXCEPT ![key].is_exhausted = FALSE,
                                           ![key].requests_remaining = tr[key].requests_limit]
                           ELSE tr
              IN  AvailableKeysLoop(keys, i + 1, reset, t, Append(available_keys, key))
         ELSE AvailableKeysLoop(keys, i + 1, tr, t, available_keys)

\* Variant: every key is appended twice (once on the reset, once after it).
RECURSIVE Doubled(_)
Doubled(s) == IF s = <<>> THEN <<>> ELSE <<Head(s), Head(s)>> \o Doubled(Tail(s))

AvailableKeysAppendedTwice(keys, tr, t) ==
    LET e == AvailableKeysLoop(keys, 1, tr, t, <<>>)
    IN  [tr |-> e.tr, available_keys |-> Doubled(e.available_keys)]

\* Variant: exhausted keys are appended as well.
AvailableKeysWithExhausted(keys, tr, t) ==
    [tr |-> AvailableKeysLoop(keys, 1, tr, t, <<>>).tr, available_keys |-> keys]

AvailableKeys(keys, tr, t) == AvailableKeysLoop(keys, 1, tr, t, <<>>)

\* time.sleep(self.backoff_seconds), taken when no key is available and
\* skip_exhausted is set: the seconds the call blocks.
SleepsAgain(available_keys, skip_exhausted, backoff_seconds) ==
    IF available_keys = <<>> /\ skip_exhausted THEN backoff_seconds + backoff_seconds ELSE 0

\* Variant: the call waits whenever no key is available, whatever the flag.
SleepsRegardless(available_keys, skip_exhausted, backoff_seconds) ==
    IF available_keys = <<>> THEN backoff_seconds ELSE 0

\* Variant: the call never waits.
SleepsNever(available_keys, skip_exhausted, backoff_seconds) == 0

SleepSeconds(available_keys, skip_exhausted, backoff_seconds) ==
    IF available_keys = <<>> /\ skip_exhausted THEN backoff_seconds ELSE 0

----------------------------------------------------------------------------
(* The rest of get_next_key, from spec.md 4.3: one re-evaluation after the *)
(* wait, the best-effort fallback to all keys, and the strategy.           *)

\* Candidates after the (single) wait: the keys are evaluated once more; if
\* none is available still, every configured key is a candidate.
Candidates(keys, evaluated) ==
    IF evaluated.available_keys = <<>> THEN keys ELSE evaluated.available_keys

\* least-used: the position of the first candidate with the highest
\* requests_remaining (NoneVal counts as lowest).
LeastUsedPos(cands, tr) ==
    CHOOSE i \in 1..Len(cands) :
        /\ \A j \in 1..Len(cands) :
               tr[cands[j]].requests_remaining <= tr[cands[i]].requests_remaining
        /\ \A j \in 1..(i - 1) :
               tr[cands[j]].requests_remaining < tr[cands[i]].requests_remaining

\* Variant: round-robin reads the cursor and leaves it where it was.
SelectKeyKeepingCursor(strat, cands, idx, tr, pick) ==
    CASE strat = ROUND_ROBIN -> [key |-> cands[(idx % Len(cands)) + 1], idx |-> idx]
      [] strat = LEAST_USED  -> [key |-> cands[LeastUsedPos(cands, tr)], idx |-> idx]
      [] OTHER               -> [key |-> cands[(pick % Len(cands)) + 1], idx |-> idx]

\* The chosen key and the cursor after the choice; pick is the random draw.
SelectKey(strat, cands, idx, tr, pick) ==
    CASE strat = ROUND_ROBIN ->
             [key |-> cands[(idx % Len(cands)) + 1], idx |-> (idx + 1) % Len(cands)]
      [] strat = LEAST_USED ->
             [key |-> cands[LeastUsedPos(cands, tr)], idx |-> idx]
      [] OTHER ->
             [key |-> cands[(pick % Len(cands)) + 1], idx |-> idx]

\* get_next_key as a whole: the trackers, cursor and clock it leaves, the key
\* it returns and the seconds it blocked.
get_next_key(keys, strat, tr, idx, t, skip_exhausted, pick) ==
    LET first     == AvailableKeys(keys, tr, t)
        slept     == SleepSeconds(first.available_keys, skip_exhausted, BackoffSeconds)
        t2        == t + slept
        evaluated == IF slept > 0 THEN AvailableKeys(keys, first.tr, t2) ELSE first
        cands     == Candidates(keys, evaluated)
        sel       == SelectKey(strat, cands, idx, evaluated.tr, pick)
    IN  [tr |-> evaluated.tr, idx |-> sel.idx, now |-> t2, key |-> sel.key,
         slept |-> slept]

\* mark_key_exhausted, from spec.md 4.4: is_exhausted = true and
\* backoff_until = now + backoff_seconds; an unknown key has no tracker.
\* Variant: the flag is set but the deadline is left as it was.
MarkWithoutBackoff(tr, api_key, t) ==
    IF api_key \in DOMAIN tr THEN [tr EXCEPT ![api_key].is_exhausted = TRUE] ELSE tr

mark_key_exhausted(tr, api_key, t) ==
    IF api_key \in DOMAIN tr
    THEN [tr EXCEPT ![api_key].is_exhausted = TRUE,
                    ![api_key].backoff_until = t + BackoffSeconds]
    ELSE tr

----------------------------------------------------------------------------
(* The coordinator's operations as actions, called by any caller.          *)

\* The history record of an operation: its name, the key it was given or
\* returned, the skip_exhausted flag, the seconds it blocked, the
\* remaining_minute value parsed from its headers and whether it raised.
Op(op, key, skip, slept, remaining, raised) ==
    [op |-> op, key |-> key, skip |-> skip, slept |-> slept,
     remaining |-> remaining, raised |-> raised]

KeyArgs == Keys

\* The draws a random choice can make; the other strategies draw nothing.
Picks == IF strategy = RANDOM THEN 0..(Len(api_keys) - 1) ELSE {0}

\* Header sets the callers pass: no rate-limit header, or a minute-window
\* remaining value that is a number or not one.
RemainingValues == {<<"9">>, <<"5", "0">>, <<"x">>}
NoHeaders == [name \in {} |-> <<>>]
HeaderMaps ==
    {NoHeaders}
    \cup {[name \in {"x-ratelimit-remaining-minute"} |-> r] : r \in RemainingValues}

\* SAIAProvider before construction: no request, no key selected.
\* posts, marks and nexts count the HTTP posts, mark_key_exhausted calls and
\* get_next_key calls of the logical request; first is its first post; step
\* lists what the last step of the request did, in order.
NoPost == [key |-> UnknownKey, status |-> NoneVal, choices |-> FALSE]

IdleRequest ==
    [pc |-> "none", api_key |-> UnknownKey, info |-> FALSE, result |-> "none",
     posts |-> 0, marks |-> 0, nexts |-> 0, first |-> NoPost, step |-> <<>>]

\* threading.RLock(), line 97: not held.  A thread is idle between calls;
\* a call's arguments, locals and result are kept in the thread's record.
NoThread == 0

Threads == 1..(MaxKeys + 1)

IdleThread ==
    [pc |-> "idle", op |-> "none", key |-> UnknownKey, skip |-> FALSE, pick |-> 0,
     headers |-> NoHeaders, available_keys |-> <<>>, index |-> 0,
     result |-> UnknownKey, expect |-> UnknownKey, calls |-> 0]

Init ==
    /\ api_keys \in {[i \in 1..n |-> i] : n \in 1..MaxKeys}
    /\ strategy \in RotationStrategy
    /\ now = 1
    /\ usage_trackers = [k \in Keys |-> KeyUsageTracker]
    /\ current_index = InitialIndex
    /\ last = Op("init", UnknownKey, FALSE, 0, NoneVal, FALSE)
    /\ req = IdleRequest
    /\ lock = NoThread
    /\ threads = [t \in Threads |-> IdleThread]
    /\ order = <<>>
    /\ serial = [tr |-> usage_trackers, idx |-> current_index, now |-> now]
    /\ prd = NoPRD
    /\ loop = NoLoop

\* Time passes, up to the horizon.
TickTo(horizon) ==
    /\ now < horizon
    /\ now' = now + 1
    /\ last' = Op("tick", UnknownKey, FALSE, 0, NoneVal, FALSE)
    /\ UNCHANGED <<ralphvars, api_keys, strategy, usage_trackers, current_index, req>>
    /\ UNCHANGED threadvars

GetNextKeyTo(horizon) ==
    \E skip_exhausted \in BOOLEAN, pick \in Picks :
        LET r == get_next_key(api_keys, strategy, usage_trackers, current_index, now,
                              skip_exhausted, pick)
        IN  /\ r.now <= horizon
            /\ usage_trackers' = r.tr
            /\ current_index' = r.idx
            /\ now' = r.now
            /\ last' = Op("next", r.key, skip_exhausted, r.slept, NoneVal, FALSE)
            /\ UNCHANGED <<ralphvars, api_keys, strategy, req>>
            /\ UNCHANGED threadvars

UpdateKeyUsageWith(maps) ==
    \E api_key \in KeyArgs, headers \in maps :
        LET u == _update_key_usage(usage_trackers, api_key, headers, now)
        IN  /\ usage_trackers' = u.tr
            /\ last' = Op("update", api_key, FALSE, 0,
                          _parse_rate_limit_headers(headers, now).remaining_minute, u.raised)
            /\ UNCHANGED <<ralphvars, api_keys, strategy, current_index, now, req>>
            /\ UNCHANGED threadvars

MarkKeyExhausted ==
    \E api_key \in KeyArgs :
        /\ usage_trackers' = mark_key_exhausted(usage_trackers, api_key, now)
        /\ last' = Op("mark", api_key, FALSE, 0, NoneVal, FALSE)
        /\ UNCHANGED <<ralphvars, api_keys, strategy, current_index, now, req>>
        /\ UNCHANGED threadvars

UpdateKeyUsage == UpdateKeyUsageWith(HeaderMaps)

Tick == TickTo(MaxTime)

GetNextKey == GetNextKeyTo(MaxTime)

NextRotator ==
    \/ Tick
    \/ GetNextKey
    \/ UpdateKeyUsage
    \/ MarkKeyExhausted

SpecRotator == Init /\ [][NextRotator]_vars

\* The same coordinator over a longer horizon, long enough for a backoff
\* deadline to pass, without usage records.
TickRecovery == TickTo(RecoveryTime)

GetNextKeyRecovery == GetNextKeyTo(RecoveryTime)

NextRecovery ==
    \/ TickRecovery
    \/ GetNextKeyRecovery
    \/ MarkKeyExhausted

SpecRecovery == Init /\ [][NextRecovery]_vars

----------------------------------------------------------------------------
(* _parse_rate_limit_headers on its own: header mappings with recognized   *)
(* and unrecognized names, and values that convert to a number or do not.  *)

ParsedNames ==
    {"x-ratelimit-limit-minute", "x-ratelimit-remaining-minute", "x-ratelimit-limit-day",
     "ratelimit-reset", "retry-after"}

ParsedValues ==
    {<<"1", "0", "0", "0">>, <<"9", "9", "9">>, <<"1", "8", "0", "0">>,
     <<"1", ".", "5">>, <<"x">>}

ParsedHeaderMaps == UNION {[names -> ParsedValues] : names \in SUBSET ParsedNames}

\* The history record of a _parse_rate_limit_headers call.
Parsed(headers, t) ==
    [op |-> "parse", headers |-> headers, time |-> t, raised |-> ParserRaises(headers),
     result |-> _parse_rate_limit_headers(headers, t)]

\* One call per run of the parser: the mapping is given, the result kept.
ParseRateLimitHeaders ==
    /\ last.op # "parse"
    /\ \E headers \in ParsedHeaderMaps : last' = Parsed(headers, now)
    /\ UNCHANGED <<ralphvars, api_keys, strategy, usage_trackers, current_index, now, req>>
    /\ UNCHANGED threadvars

NextParse ==
    \/ Tick
    \/ ParseRateLimitHeaders

\* The parser reads nothing of the coordinator: one key is enough.
InitParse ==
    /\ Init
    /\ Len(api_keys) = 1
    /\ strategy = ROUND_ROBIN

SpecParse == InitParse /\ [][NextParse]_vars

----------------------------------------------------------------------------

(* What generate_content shows of the key it used: the api_key_used entry  *)
(* of the response metadata (saia.py 504, 553, 593) and the text of the    *)
(* errors it raises (509, 604).  A key is a string of characters.          *)

MaxKeyLen == 11
ShownChars == 10

KeyChars == {"a", "b"}
KeyTexts == UNION {[1..n -> KeyChars] : n \in 1..MaxKeyLen}

\* self.api_key[:10]
Shown(api_key) ==
    SubSeq(api_key, 1, IF Len(api_key) < ShownChars THEN Len(api_key) ELSE ShownChars)

\* f"{self.api_key[:10]}..."
api_key_used(api_key) == Shown(api_key) \o <<".", ".", ".">>

\* f"SAIA API error: {response.status_code} - {response.text}" and
\* f"Invalid SAIA response: {data}": the status and what the server sent,
\* never the key.
ErrorTexts ==
    {<<"S", "A", "I", "A", " ", "A", "P", "I", " ", "e", "r", "r", "o", "r", ":", " ",
       "4", "0", "4">>,
     <<"I", "n", "v", "a", "l", "i", "d", " ", "S", "A", "I", "A", " ",
       "r", "e", "s", "p", "o", "n", "s", "e", ":", " ", "{", "}">>}

\* The history record of a finished generate_content call: the key used and
\* the text that reached the caller.
Surfaced(op, api_key, text) == [op |-> op, api_key |-> api_key, text |-> text]

\* A provider with one key, selected for the request.
InitSurface ==
    /\ api_keys \in {<<k>> : k \in KeyTexts}
    /\ strategy = ROUND_ROBIN
    /\ now = 1
    /\ usage_trackers = [k \in Keys |-> KeyUsageTracker]
    /\ current_index = InitialIndex
    /\ last = Surfaced("none", <<>>, <<>>)
    /\ req = [IdleRequest EXCEPT !.pc = "post", !.api_key = api_keys[1]]
    /\ lock = NoThread
    /\ threads = [t \in Threads |-> IdleThread]
    /\ order = <<>>
    /\ serial = [tr |-> usage_trackers, idx |-> current_index, now |-> now]
    /\ prd = NoPRD
    /\ loop = NoLoop

\* generate_content returns a ModelResponse: lines 496-507.
ReturnResponse ==
    /\ req.pc = "post"
    /\ req' = [req EXCEPT !.pc = "idle", !.result = "ok"]
    /\ last' = Surfaced("response", req.api_key, api_key_used(req.api_key))
    /\ UNCHANGED <<ralphvars, api_keys, strategy, usage_trackers, current_index, now>>
    /\ UNCHANGED threadvars

\* generate_content raises: lines 509, 604, 630.
RaiseError ==
    /\ req.pc = "post"
    /\ \E text \in ErrorTexts :
           last' = Surfaced("error", req.api_key, text)
    /\ req' = [req EXCEPT !.pc = "idle", !.result = "raised"]
    /\ UNCHANGED <<ralphvars, api_keys, strategy, usage_trackers, current_index, now>>
    /\ UNCHANGED threadvars

NextSurface ==
    \/ ReturnResponse
    \/ RaiseError

SpecSurface == InitSurface /\ [][NextSurface]_vars

----------------------------------------------------------------------------

(* get_usage_stats, from spec.md 4.4: the key count, the exhausted count,  *)
(* the strategy and the sum of requests_remaining over the non-exhausted   *)
(* keys; it reads under the lock and writes nothing.  A count that is None *)
(* cannot be added: the sum then raises TypeError.                         *)

RECURSIVE SumRemaining(_, _)
SumRemaining(keys, tr) ==
    IF keys = <<>> THEN 0
    ELSE tr[Head(keys)].requests_remaining + SumRemaining(Tail(keys), tr)

\* The aggregate of the trackers tr.
Aggregate(keys, strat, tr) ==
    LET live    == SelectSeq(keys, LAMBDA k : ~tr[k].is_exhausted)
        unknown == \E i \in 1..Len(live) : tr[live[i]].requests_remaining = NoneVal
    IN  [raised |-> unknown,
         total_keys |-> Len(keys),
         exhausted_keys |-> Len(keys) - Len(live),
         strategy |-> strat,
         total_remaining_requests |-> IF unknown THEN NoneVal ELSE SumRemaining(live, tr)]

\* Variant: the keys are evaluated as in get_next_key before they are
\* counted, which restores the counts of the available keys.
StatsAfterEvaluation(keys, strat, tr, t) ==
    LET e == AvailableKeys(keys, tr, t)
    IN  [tr |-> e.tr, stats |-> Aggregate(keys, strat, e.tr)]

\* The trackers get_usage_stats leaves, and the aggregate it returns.
get_usage_stats(keys, strat, tr, t) ==
    [tr |-> tr, stats |-> Aggregate(keys, strat, tr)]

\* The history record of a get_usage_stats call.
StatsOp(stats) ==
    [op |-> "stats", key |-> UnknownKey, skip |-> FALSE, slept |-> 0,
     remaining |-> NoneVal, raised |-> stats.raised, stats |-> stats]

\* SAIAProvider.get_rotation_stats: the coordinator's get_usage_stats.
GetUsageStats ==
    LET s == get_usage_stats(api_keys, strategy, usage_trackers, now)
    IN  /\ usage_trackers' = s.tr
        /\ last' = StatsOp(s.stats)
        /\ UNCHANGED <<ralphvars, api_keys, strategy, current_index, now, req>>
        /\ UNCHANGED threadvars

\* A usage record from a response without rate-limit headers.
UpdateKeyUsageNoHeaders == UpdateKeyUsageWith({NoHeaders})

NextStats ==
    \/ TickRecovery
    \/ GetNextKeyRecovery
    \/ UpdateKeyUsageNoHeaders
    \/ MarkKeyExhausted
    \/ GetUsageStats

SpecStats == Init /\ [][NextStats]_vars

----------------------------------------------------------------------------

(* Construction.  The caller gives a list of strings; a string is a        *)
(* sequence of characters.  Before construction there is no coordinator:   *)
(* no keys, no trackers.                                                   *)

MaxGiven == 3

Whitespace == {" "}

\* str.strip(): leading and trailing whitespace removed.
RECURSIVE LStrip(_)
LStrip(s) == IF s # <<>> /\ Head(s) \in Whitespace THEN LStrip(Tail(s)) ELSE s

RECURSIVE RStrip(_)
RStrip(s) ==
    IF s # <<>> /\ s[Len(s)] \in Whitespace THEN RStrip(SubSeq(s, 1, Len(s) - 1)) ELSE s

Strip(s) == RStrip(LStrip(s))

\* Variant: only empty strings are dropped, whitespace-only ones are kept.
RECURSIVE StrippedKeepingBlank(_)
StrippedKeepingBlank(given) ==
    IF given = <<>> THEN <<>>
    ELSE IF Head(given) # <<>>
    THEN <<Strip(Head(given))>> \o StrippedKeepingBlank(Tail(given))
    ELSE StrippedKeepingBlank(Tail(given))

\* Line 81: [key.strip() for key in api_keys if key and key.strip()].
RECURSIVE Stripped(_)
Stripped(given) ==
    IF given = <<>> THEN <<>>
    ELSE IF Head(given) # <<>> /\ Strip(Head(given)) # <<>>
    THEN <<Strip(Head(given))>> \o Stripped(Tail(given))
    ELSE Stripped(Tail(given))

\* Line 82: list(dict.fromkeys(keys).keys()), each value once, where it
\* first occurs.
RECURSIVE FromKeys(_)
FromKeys(s) ==
    IF s = <<>> THEN <<>>
    ELSE LET init == FromKeys(SubSeq(s, 1, Len(s) - 1))
             x    == s[Len(s)]
         IN  IF \E i \in 1..Len(init) : init[i] = x THEN init ELSE Append(init, x)

\* The fields KeyUsageTracker requires (line 28: api_key has no default) and
\* the arguments line 91 passes to it: none.
RequiredTrackerFields == {"api_key"}
TrackerArguments == {}

\* No coordinator.
NoRotator ==
    [raised |-> "none", api_keys |-> <<>>, usage_trackers |-> <<>>,
     current_index |-> InitialIndex]

\* APIKeyRotator.__init__, lines 77-97: the exception it raises, or the
\* coordinator it builds.
APIKeyRotator__init__(given) ==
    IF given = <<>>
    THEN [NoRotator EXCEPT !.raised = "ValueError"]
    ELSE LET keys == FromKeys(Stripped(given))
         IN  IF keys = <<>>
             THEN [NoRotator EXCEPT !.raised = "ValueError"]
             ELSE IF ~(RequiredTrackerFields \subseteq TrackerArguments)
             THEN [NoRotator EXCEPT !.raised = "TypeError"]
             ELSE [raised |-> "none", api_keys |-> keys,
                   usage_trackers |->
                       [k \in {keys[i] : i \in 1..Len(keys)} |-> KeyUsageTracker],
                   current_index |-> InitialIndex]

\* any(api_keys): some string of the list is not empty.
any(given) == \E i \in 1..Len(given) : given[i] # <<>>

\* SAIAProvider.__init__, lines 362-379: its own check, the coordinator,
\* and the first key taken from it.
SAIAProvider__init__(given, strat, t) ==
    IF given = <<>> \/ ~any(given)
    THEN [rotator |-> [NoRotator EXCEPT !.raised = "ValueError"], api_key |-> <<>>]
    ELSE LET r == APIKeyRotator__init__(given)
         IN  IF r.raised # "none"
             THEN [rotator |-> r, api_key |-> <<>>]
             ELSE LET g == get_next_key(r.api_keys, strat, r.usage_trackers,
                                        r.current_index, t, FALSE, 0)
                  IN  [rotator |-> [r EXCEPT !.usage_trackers = g.tr,
                                             !.current_index = g.idx],
                       api_key |-> g.key]

\* The strings a caller may give: empty, blank, a key, the same key with
\* whitespace before or after it, another key.
RawKeys == {<<>>, <<" ">>, <<"a">>, <<" ", "a">>, <<"a", " ">>, <<"b">>}

RECURSIVE ListsUpTo(_)
ListsUpTo(n) ==
    IF n = 0 THEN {<<>>}
    ELSE LET shorter == ListsUpTo(n - 1)
         IN  shorter \cup {Append(s, k) : s \in shorter, k \in RawKeys}

GivenLists == ListsUpTo(MaxGiven)

\* The history record of a construction: the class, the list given, the
\* exception raised ("none" when the object was built).
Construction(class, given, raised) == [op |-> class, given |-> given, raised |-> raised]

InitConstruct ==
    /\ api_keys = NoRotator.api_keys
    /\ strategy \in RotationStrategy
    /\ now = 1
    /\ usage_trackers = NoRotator.usage_trackers
    /\ current_index = NoRotator.current_index
    /\ last = Construction("none", <<>>, "none")
    /\ req = IdleRequest
    /\ lock = NoThread
    /\ threads = [t \in Threads |-> IdleThread]
    /\ order = <<>>
    /\ serial = [tr |-> usage_trackers, idx |-> current_index, now |-> now]
    /\ prd = NoPRD
    /\ loop = NoLoop

\* APIKeyRotator(given, strategy) is called.
ConstructRotator ==
    /\ last.op = "none"
    /\ \E given \in GivenLists :
           LET r == APIKeyRotator__init__(given)
           IN  /\ api_keys' = r.api_keys
               /\ usage_trackers' = r.usage_trackers
               /\ current_index' = r.current_index
               /\ last' = Construction("APIKeyRotator", given, r.raised)
    /\ UNCHANGED <<ralphvars, strategy, now, req>>
    /\ UNCHANGED threadvars

\* SAIAProvider(given, strategy = strategy) is called.
ConstructProvider ==
    /\ last.op = "none"
    /\ \E given \in GivenLists :
           LET p == SAIAProvider__init__(given, strategy, now)
           IN  /\ api_keys' = p.rotator.api_keys
               /\ usage_trackers' = p.rotator.usage_trackers
               /\ current_index' = p.rotator.current_index
               /\ req' = IF p.rotator.raised = "none"
                         THEN [IdleRequest EXCEPT !.pc = "idle", !.api_key = p.api_key]
                         ELSE IdleRequest
               /\ last' = Construction("SAIAProvider", given, p.rotator.raised)
    /\ UNCHANGED <<ralphvars, strategy, now>>
    /\ UNCHANGED threadvars

NextConstruct ==
    \/ ConstructRotator
    \/ ConstructProvider

SpecConstruct == InitConstruct /\ [][NextConstruct]_vars

----------------------------------------------------------------------------

(* A least-used coordinator whose responses carry a minute-window limit,   *)
(* so that the keys' limits, and the counts restored from them, differ.    *)

LimitValues == {<<"5">>, <<"2", "0", "0", "0">>}
LimitHeaderMaps == {[name \in {"x-ratelimit-limit-minute"} |-> v] : v \in LimitValues}

InitLeastUsed ==
    /\ Init
    /\ strategy = LEAST_USED

UpdateKeyLimit == UpdateKeyUsageWith(LimitHeaderMaps)

NextLeastUsed ==
    \/ Tick
    \/ GetNextKey
    \/ UpdateKeyLimit
    \/ MarkKeyExhausted

SpecLeastUsed == InitLeastUsed /\ [][NextLeastUsed]_vars

----------------------------------------------------------------------------
(* The Ralph loop, src/ralph_utils.py: the PRD with its tasks and the      *)
(* RalphManager around it.  Of a task the model keeps id, status and       *)
(* attempts; of the PRD tasks, passes, iteration and max_iterations.  The  *)
(* texts and timestamps decide nothing, and the file save_prd writes is    *)
(* read again only by a manager that holds no PRD.                         *)

MaxTasks == 2
MaxIterations == 2
MaxTaskAttempts == 2

\* class TaskStatus
PENDING == "pending"
IN_PROGRESS == "in_progress"
DONE == "done"
FAILED == "failed"
BLOCKED == "blocked"
TaskStatus == {PENDING, IN_PROGRESS, DONE, FAILED, BLOCKED}

\* class Task; create_prd numbers the tasks from 1.
Task(id, status) == [id |-> id, status |-> status, attempts |-> 0]

\* The position of the first task with the given status, 0 if there is none.
FirstWithStatus(tasks, status) ==
    IF \E i \in 1..Len(tasks) : tasks[i].status = status
    THEN CHOOSE i \in 1..Len(tasks) :
             /\ tasks[i].status = status
             /\ \A j \in 1..(i - 1) : tasks[j].status # status
    ELSE 0

\* Variant: a failed task is picked up like a pending one.
NextTaskRetryingFailed(p) ==
    LET running == FirstWithStatus(p.tasks, IN_PROGRESS)
        waiting == IF \E i \in 1..Len(p.tasks) : p.tasks[i].status \in {PENDING, FAILED}
                   THEN CHOOSE i \in 1..Len(p.tasks) :
                            /\ p.tasks[i].status \in {PENDING, FAILED}
                            /\ \A j \in 1..(i - 1) :
                                   p.tasks[j].status \notin {PENDING, FAILED}
                   ELSE 0
    IN  IF running # 0 THEN p.tasks[running].id
        ELSE IF waiting # 0 THEN p.tasks[waiting].id
        ELSE NoneVal

\* PRD.get_next_task: the id of the task it returns, NoneVal for None.
get_next_task(p) ==
    LET running == FirstWithStatus(p.tasks, IN_PROGRESS)
        waiting == FirstWithStatus(p.tasks, PENDING)
    IN  IF running # 0 THEN p.tasks[running].id
        ELSE IF waiting # 0 THEN p.tasks[waiting].id
        ELSE NoneVal

\* PRD.get_task_by_id: the position of the first task with the id, 0 for
\* None.
get_task_by_id(p, task_id) ==
    IF \E i \in 1..Len(p.tasks) : p.tasks[i].id = task_id
    THEN CHOOSE i \in 1..Len(p.tasks) :
             /\ p.tasks[i].id = task_id
             /\ \A j \in 1..(i - 1) : p.tasks[j].id # task_id
    ELSE 0

\* PRD._check_completion
_check_completion(p) ==
    IF p.tasks = <<>> THEN p
    ELSE [p EXCEPT !.passes = \A i \in 1..Len(p.tasks) : p.tasks[i].status = DONE]

\* The four status operations: the PRD they leave and the bool they return.
mark_task_in_progress(p, task_id) ==
    LET i == get_task_by_id(p, task_id)
    IN  IF i = 0 THEN [prd |-> p, result |-> FALSE]
        ELSE [prd |-> [p EXCEPT !.tasks[i].status = IN_PROGRESS,
                                !.tasks[i].attempts = @ + 1],
              result |-> TRUE]

mark_task_done(p, task_id) ==
    LET i == get_task_by_id(p, task_id)
    IN  IF i = 0 THEN [prd |-> p, result |-> FALSE]
        ELSE [prd |-> _check_completion([p EXCEPT !.tasks[i].status = DONE]),
              result |-> TRUE]

mark_task_failed(p, task_id) ==
    LET i == get_task_by_id(p, task_id)
    IN  IF i = 0 THEN [prd |-> p, result |-> FALSE]
        ELSE [prd |-> [p EXCEPT !.tasks[i].status = FAILED], result |-> TRUE]

reset_task(p, task_id) ==
    LET i == get_task_by_id(p, task_id)
    IN  IF i = 0 THEN [prd |-> p, result |-> FALSE]
        ELSE [prd |-> [p EXCEPT !.tasks[i].status = PENDING], result |-> TRUE]

\* Variant: the iteration limit is not looked at.
ContinuesPastLimit(p) ==
    /\ ~p.passes
    /\ get_next_task(p) # NoneVal

\* RalphManager.should_continue
should_continue(p) ==
    /\ ~p.passes
    /\ ~(p.iteration >= p.max_iterations)
    /\ get_next_task(p) # NoneVal

\* RalphManager.increment_iteration: the PRD it leaves.
increment_iteration(p) == [p EXCEPT !.iteration = @ + 1]

\* The history record of a PRD operation: its name, the task id it was
\* given and what it returned.
RalphOp(op, task_id, result) == [op |-> op, task_id |-> task_id, result |-> result]

\* The variables of the key coordinator, which the Ralph loop does not use.
coordinatorvars ==
    <<api_keys, strategy, usage_trackers, current_index, now, req, lock, threads,
      order, serial>>

\* No coordinator is constructed.
InitNoCoordinator ==
    /\ api_keys = <<>>
    /\ strategy = ROUND_ROBIN
    /\ now = 1
    /\ usage_trackers = <<>>
    /\ current_index = InitialIndex
    /\ req = IdleRequest
    /\ lock = NoThread
    /\ threads = [t \in Threads |-> IdleThread]
    /\ order = <<>>
    /\ serial = [tr |-> usage_trackers, idx |-> current_index, now |-> now]

\* The task ids a caller may pass: the ids of the tasks and one more.
TaskIds == 1..(Len(prd.tasks) + 1)

\* load_prd of a newly written prd.json: one to MaxTasks tasks, each
\* pending or blocked, nothing passed, no iteration run.
NewPRDs ==
    {[tasks |-> [i \in 1..n |-> Task(i, st[i])], passes |-> FALSE, iteration |-> 0,
      max_iterations |-> MaxIterations] :
        n \in 1..MaxTasks, st \in [1..MaxTasks -> {PENDING, BLOCKED}]}

InitPRD ==
    /\ InitNoCoordinator
    /\ prd \in NewPRDs
    /\ loop = NoLoop
    /\ last = RalphOp("load_prd", 0, TRUE)

MarkTaskInProgress ==
    \E task_id \in TaskIds :
        /\ \A i \in 1..Len(prd.tasks) :
               prd.tasks[i].id = task_id => prd.tasks[i].attempts < MaxTaskAttempts
        /\ prd' = mark_task_in_progress(prd, task_id).prd
        /\ last' = RalphOp("mark_task_in_progress", task_id,
                           mark_task_in_progress(prd, task_id).result)
        /\ UNCHANGED <<coordinatorvars, loop>>

MarkTaskDone ==
    \E task_id \in TaskIds :
        /\ prd' = mark_task_done(prd, task_id).prd
        /\ last' = RalphOp("mark_task_done", task_id, mark_task_done(prd, task_id).result)
        /\ UNCHANGED <<coordinatorvars, loop>>

MarkTaskFailed ==
    \E task_id \in TaskIds :
        /\ prd' = mark_task_failed(prd, task_id).prd
        /\ last' = RalphOp("mark_task_failed", task_id,
                           mark_task_failed(prd, task_id).result)
        /\ UNCHANGED <<coordinatorvars, loop>>

ResetTask ==
    \E task_id \in TaskIds :
        /\ prd' = reset_task(prd, task_id).prd
        /\ last' = RalphOp("reset_task", task_id, reset_task(prd, task_id).result)
        /\ UNCHANGED <<coordinatorvars, loop>>

GetNextTask ==
    /\ last' = RalphOp("get_next_task", 0, get_next_task(prd))
    /\ UNCHANGED <<coordinatorvars, prd, loop>>

NextPRD ==
    \/ MarkTaskInProgress
    \/ MarkTaskDone
    \/ MarkTaskFailed
    \/ ResetTask
    \/ GetNextTask

SpecPRD == InitPRD /\ [][NextPRD]_vars

\* The loop the check and iterate commands are made for:
\*   while should_continue(): increment_iteration(); <status operations>
\* It may start from any PRD a file can hold: any status per task, the flag
\* set or not, the iteration below, at or above the limit.
AnyPRDs ==
    {[tasks |-> [i \in 1..n |-> Task(i, st[i])], passes |-> passes,
      iteration |-> iteration, max_iterations |-> MaxIterations] :
        n \in 1..MaxTasks, st \in [1..MaxTasks -> TaskStatus], passes \in BOOLEAN,
        iteration \in 0..(MaxIterations + 1)}

InitLoop ==
    /\ InitNoCoordinator
    /\ prd \in AnyPRDs
    /\ loop = [pc |-> "check", start |-> prd.iteration]
    /\ last = RalphOp("load_prd", 0, TRUE)

\* while should_continue():
LoopCheck ==
    /\ loop.pc = "check"
    /\ loop' = [loop EXCEPT !.pc = IF should_continue(prd) THEN "increment" ELSE "stopped"]
    /\ last' = RalphOp("should_continue", 0, should_continue(prd))
    /\ UNCHANGED <<coordinatorvars, prd>>

\* increment_iteration()
LoopIncrement ==
    /\ loop.pc = "increment"
    /\ prd' = increment_iteration(prd)
    /\ loop' = [loop EXCEPT !.pc = "work"]
    /\ last' = RalphOp("increment_iteration", 0, increment_iteration(prd).iteration)
    /\ UNCHANGED coordinatorvars

\* The status operations of one pass through the loop body: any of the
\* four, on any task, any number of times.
LoopWork ==
    /\ loop.pc = "work"
    /\ \E task_id \in TaskIds :
           \/ /\ \A i \in 1..Len(prd.tasks) :
                     prd.tasks[i].id = task_id => prd.tasks[i].attempts < MaxTaskAttempts
              /\ prd' = mark_task_in_progress(prd, task_id).prd
           \/ prd' = mark_task_done(prd, task_id).prd
           \/ prd' = mark_task_failed(prd, task_id).prd
           \/ prd' = reset_task(prd, task_id).prd
    /\ last' = RalphOp("work", 0, TRUE)
    /\ UNCHANGED <<coordinatorvars, loop>>

\* The body is done; the condition is evaluated again.
LoopAgain ==
    /\ loop.pc = "work"
    /\ loop' = [loop EXCEPT !.pc = "check"]
    /\ last' = RalphOp("loop", 0, TRUE)
    /\ UNCHANGED <<coordinatorvars, prd>>

NextLoop ==
    \/ LoopCheck
    \/ LoopIncrement
    \/ LoopWork
    \/ LoopAgain

\* Each step of the loop is taken once it can be: the condition, the
\* increment and the end of the body; the status operations are at will.
SpecLoop ==
    /\ InitLoop
    /\ [][NextLoop]_vars
    /\ WF_vars(LoopCheck)
    /\ WF_vars(LoopIncrement)
    /\ WF_vars(LoopAgain)

----------------------------------------------------------------------------
(* The coordinator with requests in flight: the usage record of an earlier *)
(* response arrives after other calls.  The history record of a selection  *)
(* and of a mark keeps the call that came before it.                       *)

\* The headers of a late response: a minute-window count of 50.
LateHeaderMaps ==
    {[name \in {"x-ratelimit-remaining-minute"} |-> <<"5", "0">>]}

\* The call before the step: its name, key and parsed remaining value.
Earlier == [op |-> last.op, key |-> last.key, remaining |-> last.remaining]

\* The history record op, with the call before it and the backoff_until the
\* key of the call held before it.
Remembered(op, deadline) ==
    [op |-> op.op, key |-> op.key, skip |-> op.skip, slept |-> op.slept,
     remaining |-> op.remaining, raised |-> op.raised,
     earlier |-> Earlier, deadline |-> deadline]

LateUpdateKeyUsage == UpdateKeyUsageWith(LateHeaderMaps)

GetNextKeyInFlight ==
    \E skip_exhausted \in BOOLEAN, pick \in Picks :
        LET r == get_next_key(api_keys, strategy, usage_trackers, current_index, now,
                              skip_exhausted, pick)
        IN  /\ r.now <= MaxTime
            /\ usage_trackers' = r.tr
            /\ current_index' = r.idx
            /\ now' = r.now
            /\ last' = Remembered(Op("next", r.key, skip_exhausted, r.slept, NoneVal,
                                     FALSE), 0)
            /\ UNCHANGED <<ralphvars, api_keys, strategy, req>>
            /\ UNCHANGED threadvars

MarkKeyExhaustedInFlight ==
    \E api_key \in KeyArgs :
        /\ usage_trackers' = mark_key_exhausted(usage_trackers, api_key, now)
        /\ last' = Remembered(Op("mark", api_key, FALSE, 0, NoneVal, FALSE),
                              usage_trackers[api_key].backoff_until)
        /\ UNCHANGED <<ralphvars, api_keys, strategy, current_index, now, req>>
        /\ UNCHANGED threadvars

NextInFlight ==
    \/ Tick
    \/ GetNextKeyInFlight
    \/ LateUpdateKeyUsage
    \/ MarkKeyExhausted
    \/ GetUsageStats

SpecInFlight == Init /\ [][NextInFlight]_vars

\* The coordinator with repeated marks: every operation, the mark keeping
\* the deadline it replaced.
NextBackoff ==
    \/ Tick
    \/ GetNextKey
    \/ UpdateKeyUsageNoHeaders
    \/ MarkKeyExhaustedInFlight
    \/ GetUsageStats

SpecBackoff == Init /\ [][NextBackoff]_vars

----------------------------------------------------------------------------
(* A fresh round-robin coordinator with three keys, and a single caller    *)
(* whose calls are listed in `order` as they are made.                     *)

ThreeKeys == <<1, 2, 3>>

\* An entry of `order`: a get_next_key call with its flag and the key it
\* returned, or a mark_key_exhausted call with the key it was given.
Entry(op, key, skip) == [op |-> op, key |-> key, skip |-> skip]

Marks(entries) == Len(SelectSeq(entries, LAMBDA en : en.op = "mark"))

InitCycle ==
    /\ api_keys = ThreeKeys
    /\ strategy = ROUND_ROBIN
    /\ now = 1
    /\ usage_trackers = [k \in Keys |-> KeyUsageTracker]
    /\ current_index = InitialIndex
    /\ last = Op("init", UnknownKey, FALSE, 0, NoneVal, FALSE)
    /\ req = IdleRequest
    /\ lock = NoThread
    /\ threads = [t \in Threads |-> IdleThread]
    /\ order = <<>>
    /\ serial = [tr |-> usage_trackers, idx |-> current_index, now |-> now]
    /\ prd = NoPRD
    /\ loop = NoLoop

CycleNextKey ==
    /\ Len(order) < MaxOrder
    /\ \E skip_exhausted \in BOOLEAN :
           LET r == get_next_key(api_keys, strategy, usage_trackers, current_index, now,
                                 skip_exhausted, 0)
           IN  /\ usage_trackers' = r.tr
               /\ current_index' = r.idx
               /\ now' = r.now
               /\ last' = Op("next", r.key, skip_exhausted, r.slept, NoneVal, FALSE)
               /\ order' = Append(order, Entry("next", r.key, skip_exhausted))
               /\ UNCHANGED <<ralphvars, api_keys, strategy, req, lock, threads, serial>>

CycleMarkKeyExhausted ==
    /\ Len(order) < MaxOrder
    /\ Marks(order) < MaxMarks
    /\ \E api_key \in Keys :
           /\ usage_trackers' = mark_key_exhausted(usage_trackers, api_key, now)
           /\ last' = Op("mark", api_key, FALSE, 0, NoneVal, FALSE)
           /\ order' = Append(order, Entry("mark", api_key, FALSE))
           /\ UNCHANGED <<ralphvars, api_keys, strategy, current_index, now, req, lock, threads,
                          serial>>

NextCycle ==
    \/ CycleNextKey
    \/ CycleMarkKeyExhausted

SpecCycle == InitCycle /\ [][NextCycle]_vars

----------------------------------------------------------------------------
(* Concurrent callers.  Each thread runs one call at a time; a call is a   *)
(* sequence of steps, one per access to the lock or to the shared cursor   *)
(* and trackers.  `with self._lock:` (lines 160, 184) is an acquire before *)
(* the block and a release on every exit from it, an exception included.   *)
(* The lock is reentrant: its holder may take it again.                    *)

\* Variant: the block is entered without waiting for the lock.
LockIgnored(l, t) == TRUE

LockFree(l, t) == l \in {NoThread, t}

\* Variant: an exception leaves the block with the lock still held.
KeptOnRaise(l, t) == l

\* The lock after an exception has left the with block.
ReleasedOnRaise(l, t) == NoThread

\* The history after a call has taken the lock: the call run in one piece
\* on the state the earlier calls left, and the key it returns.
SerialCall(th) ==
    CASE th.op = "next" ->
             LET r == get_next_key(api_keys, strategy, serial.tr, serial.idx,
                                   serial.now, th.skip, th.pick)
             IN  [serial |-> [tr |-> r.tr, idx |-> r.idx, now |-> r.now],
                  expect |-> r.key]
      [] th.op = "update" ->
             [serial |-> [serial EXCEPT !.tr =
                              _update_key_usage(serial.tr, th.key, th.headers,
                                                serial.now).tr],
              expect |-> UnknownKey]
      [] th.op = "mark" ->
             [serial |-> [serial EXCEPT !.tr =
                              mark_key_exhausted(serial.tr, th.key, serial.now)],
              expect |-> UnknownKey]
      [] OTHER -> [serial |-> serial, expect |-> UnknownKey]

\* A thread's record when it starts a call.
Calling(th, op, key, skip, pick, headers, pc) ==
    [IdleThread EXCEPT !.pc = pc, !.op = op, !.key = key, !.skip = skip,
                       !.pick = pick, !.headers = headers, !.calls = th.calls + 1]

\* A thread's record when its call has returned or raised.
Returned(th, result) ==
    [IdleThread EXCEPT !.result = result, !.expect = th.expect, !.calls = th.calls]

\* Two workers, and the calls they have started between them.
Workers == {1, 2}
WorkerCalls == threads[1].calls + threads[2].calls

\* get_next_key(skip_exhausted) is called: line 184 comes first.  more says
\* whether the thread has a call left to make.
ThreadCallNext(t, more) ==
    /\ threads[t].pc = "idle"
    /\ more
    /\ \E skip_exhausted \in BOOLEAN, pick \in Picks :
           threads' = [threads EXCEPT ![t] =
               Calling(@, "next", UnknownKey, skip_exhausted, pick, NoHeaders, "acquire")]
    /\ UNCHANGED <<ralphvars, api_keys, strategy, usage_trackers, current_index, now, last, req,
                   lock, order, serial>>

\* _update_key_usage(api_key, headers) is called: lines 150-155 parse the
\* headers and return when a minute-window remaining value is present.
ThreadCallUpdate(t) ==
    /\ threads[t].pc = "idle"
    /\ WorkerCalls < MaxCalls
    /\ \E api_key \in Keys, headers \in HeaderMaps :
           LET rate_limits == _parse_rate_limit_headers(headers, now)
               pc == IF rate_limits.remaining_minute # NoneVal THEN "idle" ELSE "acquire"
           IN  threads' = [threads EXCEPT ![t] =
                   Calling(@, "update", api_key, FALSE, 0, headers, pc)]
    /\ UNCHANGED <<ralphvars, api_keys, strategy, usage_trackers, current_index, now, last, req,
                   lock, order, serial>>

\* mark_key_exhausted(api_key) is called.
ThreadCallMark(t) ==
    /\ threads[t].pc = "idle"
    /\ WorkerCalls < MaxCalls
    /\ \E api_key \in Keys :
           threads' = [threads EXCEPT ![t] =
               Calling(@, "mark", api_key, FALSE, 0, NoHeaders, "acquire")]
    /\ UNCHANGED <<ralphvars, api_keys, strategy, usage_trackers, current_index, now, last, req,
                   lock, order, serial>>

\* get_usage_stats() is called.
ThreadCallStats(t) ==
    /\ threads[t].pc = "idle"
    /\ WorkerCalls < MaxCalls
    /\ threads' = [threads EXCEPT ![t] =
           Calling(@, "stats", UnknownKey, FALSE, 0, NoHeaders, "acquire")]
    /\ UNCHANGED <<ralphvars, api_keys, strategy, usage_trackers, current_index, now, last, req,
                   lock, order, serial>>

\* with self._lock: the thread waits until the lock can be taken.
ThreadAcquire(t) ==
    /\ threads[t].pc = "acquire"
    /\ LockFree(lock, t)
    /\ lock' = t
    /\ serial' = SerialCall(threads[t]).serial
    /\ threads' = [threads EXCEPT ![t].pc = "locked",
                                  ![t].expect = SerialCall(threads[t]).expect]
    /\ UNCHANGED <<ralphvars, api_keys, strategy, usage_trackers, current_index, now, last, req,
                   order>>

\* get_next_key, lines 185-210: the loop over the keys; the thread then
\* sleeps (with the lock held) or goes on to the selection.
ThreadLoop(t) ==
    /\ threads[t].pc = "locked" /\ threads[t].op = "next"
    /\ LET e == AvailableKeys(api_keys, usage_trackers, now)
           slept == SleepSeconds(e.available_keys, threads[t].skip, BackoffSeconds)
       IN  /\ usage_trackers' = e.tr
           /\ threads' = [threads EXCEPT
                  ![t].available_keys = e.available_keys,
                  ![t].pc = IF slept > 0 THEN "sleep" ELSE "select"]
    /\ UNCHANGED <<ralphvars, api_keys, strategy, current_index, now, last, req, lock, order,
                   serial>>

\* time.sleep(self.backoff_seconds) returns; the keys are evaluated again.
ThreadSleep(t) ==
    /\ threads[t].pc = "sleep"
    /\ LET e == AvailableKeys(api_keys, usage_trackers, now + BackoffSeconds)
       IN  /\ now' = now + BackoffSeconds
           /\ usage_trackers' = e.tr
           /\ threads' = [threads EXCEPT ![t].available_keys = e.available_keys,
                                         ![t].pc = "select"]
    /\ UNCHANGED <<ralphvars, api_keys, strategy, current_index, last, req, lock, order, serial>>

\* The selection reads the cursor.
ThreadSelect(t) ==
    /\ threads[t].pc = "select"
    /\ threads' = [threads EXCEPT ![t].index = current_index, ![t].pc = "advance"]
    /\ UNCHANGED <<ralphvars, api_keys, strategy, usage_trackers, current_index, now, last, req,
                   lock, order, serial>>

\* The selection writes the cursor and returns the key; the with block is
\* left and the lock released.
ThreadAdvance(t) ==
    /\ threads[t].pc = "advance"
    /\ LET cands == Candidates(api_keys, [available_keys |-> threads[t].available_keys])
           sel   == SelectKey(strategy, cands, threads[t].index, usage_trackers,
                              threads[t].pick)
       IN  /\ current_index' = sel.idx
           /\ order' = Append(order, Entry("next", sel.key, FALSE))
           /\ threads' = [threads EXCEPT ![t] = Returned(@, sel.key)]
    /\ lock' = NoThread
    /\ UNCHANGED <<ralphvars, api_keys, strategy, usage_trackers, now, last, req, serial>>

\* _update_key_usage, lines 161-167: the assignments to the tracker.
ThreadAssign(t) ==
    /\ threads[t].pc = "locked" /\ threads[t].op = "update"
    /\ LET rate_limits == _parse_rate_limit_headers(threads[t].headers, now)
           api_key == threads[t].key
       IN  usage_trackers' =
               IF api_key \in DOMAIN usage_trackers
               THEN [usage_trackers EXCEPT
                        ![api_key].requests_remaining = rate_limits.remaining_minute,
                        ![api_key].requests_limit = UsageLimit(rate_limits)]
               ELSE usage_trackers
    /\ threads' = [threads EXCEPT ![t].pc = "compare"]
    /\ UNCHANGED <<ralphvars, api_keys, strategy, current_index, now, last, req, lock, order,
                   serial>>

\* _update_key_usage, line 170: `remaining < 10` raises TypeError when
\* remaining is None, which leaves the with block; otherwise is_exhausted
\* is assigned and the block is left normally.
ThreadCompare(t) ==
    /\ threads[t].pc = "compare"
    /\ LET remaining == _parse_rate_limit_headers(threads[t].headers, now).remaining_minute
           api_key == threads[t].key
       IN  IF remaining = NoneVal
           THEN /\ lock' = ReleasedOnRaise(lock, t)
                /\ UNCHANGED usage_trackers
           ELSE /\ lock' = NoThread
                /\ usage_trackers' = [usage_trackers EXCEPT ![api_key].is_exhausted =
                                          (remaining < ExhaustionThreshold)]
    /\ threads' = [threads EXCEPT ![t] = Returned(@, UnknownKey)]
    /\ UNCHANGED <<ralphvars, api_keys, strategy, current_index, now, last, req, order, serial>>

\* mark_key_exhausted under the lock.
ThreadMark(t) ==
    /\ threads[t].pc = "locked" /\ threads[t].op = "mark"
    /\ usage_trackers' = mark_key_exhausted(usage_trackers, threads[t].key, now)
    /\ threads' = [threads EXCEPT ![t] = Returned(@, UnknownKey)]
    /\ lock' = NoThread
    /\ UNCHANGED <<ralphvars, api_keys, strategy, current_index, now, last, req, order, serial>>

\* get_usage_stats under the lock: it reads the trackers and changes
\* nothing.
ThreadStats(t) ==
    /\ threads[t].pc = "locked" /\ threads[t].op = "stats"
    /\ threads' = [threads EXCEPT ![t] = Returned(@, UnknownKey)]
    /\ lock' = NoThread
    /\ UNCHANGED <<ralphvars, api_keys, strategy, usage_trackers, current_index, now, last, req,
                   order, serial>>

\* The steps of a call in progress.
ThreadStep(t) ==
    \/ ThreadAcquire(t)
    \/ ThreadLoop(t)
    \/ ThreadSleep(t)
    \/ ThreadSelect(t)
    \/ ThreadAdvance(t)
    \/ ThreadAssign(t)
    \/ ThreadCompare(t)
    \/ ThreadMark(t)
    \/ ThreadStats(t)

\* K callers, more than there are keys, each calling get_next_key once.
NextCallers ==
    \E t \in Threads :
        \/ ThreadCallNext(t, threads[t].calls = 0)
        \/ ThreadAcquire(t)
        \/ ThreadLoop(t)
        \/ ThreadSelect(t)
        \/ ThreadAdvance(t)

SpecCallers == Init /\ [][NextCallers]_vars

\* The workers calling any operation, MaxCalls calls between them.
NextWorkers ==
    \E t \in Workers :
        \/ ThreadCallNext(t, WorkerCalls < MaxCalls)
        \/ ThreadCallUpdate(t)
        \/ ThreadCallMark(t)
        \/ ThreadCallStats(t)
        \/ ThreadStep(t)

SpecWorkers == Init /\ [][NextWorkers]_vars

\* The scheduler is fair to every call in progress, the waiting for the
\* lock included; no thread is obliged to start a call.
\* The registry holds one key, so that one mark_key_exhausted call brings
\* the all-keys-exhausted wait within the workers' calls.
InitSingleKey ==
    /\ Init
    /\ Len(api_keys) = 1
    /\ strategy = ROUND_ROBIN

SpecWorkersFair ==
    InitSingleKey /\ [][NextWorkers]_vars /\ \A t \in Workers : WF_vars(ThreadStep(t))

----------------------------------------------------------------------------
(* SAIAProvider._is_retryable_error.  A message is a sequence of words;    *)
(* str(error).lower() lowers each word, and an indicator is contained when *)
(* its words occur in the message one after the other.                     *)

Lower(word) ==
    CASE word = "Connection" -> "connection"
      [] word = "Quota"      -> "quota"
      [] word = "Not"        -> "not"
      [] word = "Found"      -> "found"
      [] word = "The"        -> "the"
      [] word = "SAIA"       -> "saia"
      [] word = "API"        -> "api"
      [] word = "Invalid"    -> "invalid"
      [] word = "'NoneType'" -> "'nonetype'"
      [] word = "'RateLimitHeaders'" -> "'ratelimitheaders'"
      [] OTHER               -> word

LowerAll(msg) == [i \in 1..Len(msg) |-> Lower(msg[i])]

retryable_errors ==
    {<<"rate", "limit">>, <<"429">>, <<"quota", "exceeded">>, <<"exceeded">>,
     <<"timeout">>, <<"connection">>, <<"503">>, <<"502">>, <<"500">>,
     <<"internal", "server", "error">>}

Contains(msg, indicator) ==
    \E i \in 1..Len(msg) :
        /\ i + Len(indicator) - 1 <= Len(msg)
        /\ SubSeq(msg, i, i + Len(indicator) - 1) = indicator

_is_retryable_error(msg) ==
    \E indicator \in retryable_errors : Contains(LowerAll(msg), indicator)

----------------------------------------------------------------------------
(* The outcomes of one HTTP post and the messages of the exceptions that   *)
(* generate_content raises.                                                *)

StatusText(status) ==
    CASE status = 200 -> "200" [] status = 404 -> "404"
      [] status = 429 -> "429" [] status = 500 -> "500"

\* Exceptions raised by self._client.post (status 0 stands for no response).
TransportMessages ==
    {<<"Connection", "refused">>, <<"The", "read", "operation", "timed", "out">>}

\* response.text, and the text of the decoded body.
BodyTexts == {<<"Not", "Found">>, <<"Quota", "exceeded">>}

ResponseHeaders ==
    {NoHeaders, [name \in {"x-ratelimit-remaining-minute"} |-> <<"5", "0">>]}

Statuses == {200, 404, 429, 500}

\* choices: whether the decoded body has a non-empty "choices" list (read
\* on a 200 only).
Outcomes ==
    {[status |-> 0, choices |-> FALSE, headers |-> NoHeaders, text |-> m] :
         m \in TransportMessages}
    \cup {[status |-> st, choices |-> FALSE, headers |-> h, text |-> t] :
              st \in Statuses, h \in ResponseHeaders, t \in BodyTexts}
    \cup {[status |-> 200, choices |-> TRUE, headers |-> h, text |-> t] :
              h \in ResponseHeaders, t \in BodyTexts}

\* TypeError of `remaining < 10` with remaining = None.
TypeErrorMessage ==
    <<"'<'", "not", "supported", "between", "instances", "of", "'NoneType'",
      "and", "'int'">>

\* RateLimitHeaders is a dataclass: it has no model_dump.
AttributeErrorMessage ==
    <<"'RateLimitHeaders'", "object", "has", "no", "attribute", "'model_dump'">>

\* `data` is read in an else branch where it was never assigned.
UnboundLocalMessage ==
    <<"cannot", "access", "local", "variable", "'data'", "where", "it", "is",
      "not", "associated", "with", "a", "value">>

InvalidResponseMessage(text) == <<"Invalid", "SAIA", "response:">> \o text

ApiErrorMessage(status, text) ==
    <<"SAIA", "API", "error:", StatusText(status), "-">> \o text

----------------------------------------------------------------------------
(* SAIAProvider.generate_content.  A machine state m holds the trackers,   *)
(* the cursor, the clock and the request; each step below is one part of   *)
(* the method between two HTTP posts.                                      *)

Event(e, key, status, choices) ==
    [e |-> e, key |-> key, status |-> status, choices |-> choices]

Log(m, e, key, status, choices) ==
    [m EXCEPT !.req.step = Append(@, Event(e, key, status, choices))]

Machine ==
    [tr |-> usage_trackers, idx |-> current_index, now |-> now,
     req |-> [req EXCEPT !.step = <<>>]]

\* selected_key, _ = self.key_rotator.get_next_key(skip_exhausted);
\* self.api_key = selected_key
SelectApiKey(m, skip_exhausted, pick) ==
    LET g == get_next_key(api_keys, strategy, m.tr, m.idx, m.now, skip_exhausted, pick)
        n == [m EXCEPT !.tr = g.tr, !.idx = g.idx, !.now = g.now,
                       !.req.api_key = g.key, !.req.nexts = @ + 1]
    IN  Log(n, IF skip_exhausted THEN "next_skip" ELSE "next", g.key, 0, FALSE)

\* self.key_rotator.mark_key_exhausted(self.api_key)
MarkApiKey(m) ==
    Log([m EXCEPT !.tr = mark_key_exhausted(m.tr, m.req.api_key, m.now),
                  !.req.marks = @ + 1],
        "mark", m.req.api_key, 0, FALSE)

\* self.key_rotator._update_key_usage(self.api_key, dict(response.headers))
UpdateApiKeyUsage(m, headers) ==
    Log([m EXCEPT !.tr = _update_key_usage(m.tr, m.req.api_key, headers, m.now).tr],
        "update", m.req.api_key, 0, FALSE)

\* response = self._client.post(...) with self.api_key in the headers
Post(m, o) ==
    LET this == [key |-> m.req.api_key, status |-> o.status, choices |-> o.choices]
        n    == [m EXCEPT !.req.posts = @ + 1,
                          !.req.first = IF m.req.posts = 0 THEN this ELSE @]
    IN  Log(n, "post", m.req.api_key, o.status, o.choices)

Finish(m, result) == [m EXCEPT !.req.pc = "done", !.req.result = result]

\* The except block, lines 606-630: a retryable error marks self.api_key,
\* takes a key with skip_exhausted = True and calls generate_content again,
\* which starts by taking a key with skip_exhausted = False; any other
\* error is raised to the caller.
ExceptBlock(m, msg, pick1, pick2) ==
    IF _is_retryable_error(msg)
    THEN LET rotated == SelectApiKey(MarkApiKey(m), TRUE, pick1)
         IN  [SelectApiKey(rotated, FALSE, pick2) EXCEPT !.req.pc = "post"]
    ELSE Finish(m, "error")

\* Lines 466-604: the first post of a generate_content call and what
\* follows it up to the next post or the end of the call.
FirstPost(m, o, pick1, pick2, info) ==
    LET posted == Post(m, o)
        usage  == _update_key_usage(posted.tr, posted.req.api_key, o.headers, posted.now)
        noted  == UpdateApiKeyUsage(posted, o.headers)
    IN  IF o.status = 0 THEN ExceptBlock(posted, o.text, pick1, pick2)
        ELSE IF usage.raised THEN ExceptBlock(noted, TypeErrorMessage, pick1, pick2)
        ELSE IF o.status = 200
        THEN IF o.choices
             THEN ExceptBlock(noted, AttributeErrorMessage, pick1, pick2)
             ELSE ExceptBlock(noted, InvalidResponseMessage(o.text), pick1, pick2)
        ELSE IF o.status = 429
        THEN [SelectApiKey(MarkApiKey(noted), TRUE, pick1)
                 EXCEPT !.req.pc = "retry429", !.req.info = info]
        ELSE IF o.status >= 500
        THEN [SelectApiKey(noted, TRUE, pick1) EXCEPT !.req.pc = "retry5xx"]
        ELSE ExceptBlock(noted, ApiErrorMessage(o.status, o.text), pick1, pick2)

\* Lines 524-559: the retry post after a 429.  new_rate_limit_info is the
\* snapshot get_next_key returned (info: whether it is not None).  A 200
\* without choices falls out of the if and the method returns None.
RetryPost429(m, o, pick1, pick2) ==
    LET posted == Post(m, o)
        usage  == _update_key_usage(posted.tr, posted.req.api_key, o.headers, posted.now)
        noted  == UpdateApiKeyUsage(posted, o.headers)
    IN  IF o.status = 0 THEN ExceptBlock(posted, o.text, pick1, pick2)
        ELSE IF o.status = 200
        THEN IF ~o.choices THEN Finish(posted, "none")
             ELSE IF ~m.req.info THEN Finish(posted, "success")
             ELSE IF usage.raised THEN ExceptBlock(noted, TypeErrorMessage, pick1, pick2)
             ELSE ExceptBlock(noted, AttributeErrorMessage, pick1, pick2)
        ELSE ExceptBlock(posted, UnboundLocalMessage, pick1, pick2)

\* Lines 569-600: the retry post after a status >= 500.  rate_limit_info is
\* the RateLimitHeaders parsed from the first response.
RetryPost5xx(m, o, pick1, pick2) ==
    LET posted == Post(m, o)
    IN  IF o.status = 0 THEN ExceptBlock(posted, o.text, pick1, pick2)
        ELSE IF o.status = 200
        THEN IF ~o.choices THEN Finish(posted, "none")
             ELSE ExceptBlock(posted, AttributeErrorMessage, pick1, pick2)
        ELSE ExceptBlock(posted, UnboundLocalMessage, pick1, pick2)

\* The machine state becomes the next state.
Becomes(m) ==
    /\ m.now <= MaxTime
    /\ usage_trackers' = m.tr
    /\ current_index' = m.idx
    /\ now' = m.now
    /\ req' = m.req
    /\ last' = Op("request", UnknownKey, FALSE, 0, NoneVal, FALSE)
    /\ UNCHANGED <<ralphvars, api_keys, strategy>>
    /\ UNCHANGED threadvars

\* SAIAProvider.__init__, line 379: first_key, _ = get_next_key()
ProviderInit ==
    /\ req.pc = "none"
    /\ \E pick \in Picks :
           Becomes([SelectApiKey(Machine, FALSE, pick)
                       EXCEPT !.req.pc = "idle", !.req.nexts = 0])

\* A caller calls generate_content: lines 429-433.
RequestBegin ==
    /\ req.pc = "idle"
    /\ \E pick \in Picks :
           Becomes([SelectApiKey(Machine, FALSE, pick) EXCEPT !.req.pc = "post"])

RequestFirstPost ==
    /\ req.pc = "post"
    /\ req.posts < MaxAttempts
    /\ \E o \in Outcomes, pick1 \in Picks, pick2 \in Picks :
           \E info \in IF o.status = 429 THEN BOOLEAN ELSE {FALSE} :
               \E m \in {FirstPost(Machine, o, pick1, pick2, info)} : Becomes(m)

RequestRetryPost429 ==
    /\ req.pc = "retry429"
    /\ req.posts < MaxAttempts
    /\ \E o \in Outcomes, pick1 \in Picks, pick2 \in Picks :
           \E m \in {RetryPost429(Machine, o, pick1, pick2)} : Becomes(m)

RequestRetryPost5xx ==
    /\ req.pc = "retry5xx"
    /\ req.posts < MaxAttempts
    /\ \E o \in Outcomes, pick1 \in Picks, pick2 \in Picks :
           \E m \in {RetryPost5xx(Machine, o, pick1, pick2)} : Becomes(m)

\* generate_content has returned or raised; the provider is idle again.
RequestEnd ==
    /\ req.pc = "done"
    /\ req' = [IdleRequest EXCEPT !.pc = "idle", !.api_key = req.api_key]
    /\ last' = Op("request", UnknownKey, FALSE, 0, NoneVal, FALSE)
    /\ UNCHANGED <<ralphvars, api_keys, strategy, usage_trackers, current_index, now>>
    /\ UNCHANGED threadvars

NextProvider ==
    \/ Tick
    \/ ProviderInit
    \/ RequestBegin
    \/ RequestFirstPost
    \/ RequestRetryPost429
    \/ RequestRetryPost5xx
    \/ RequestEnd

SpecProvider == Init /\ [][NextProvider]_vars

----------------------------------------------------------------------------
(* Properties of the coordinator *)

AllExhausted == \A k \in Keys : usage_trackers[k].is_exhausted
NoneExhausted == \A k \in Keys : ~usage_trackers[k].is_exhausted

\* C1: in every reachable state, get_next_key with either flag and any
\* draw returns one of the configured keys, and it blocks either not at all
\* or for exactly one backoff interval, the latter only when skip_exhausted
\* is set and every key is exhausted.
C1_NextKeyReturnsConfiguredKey ==
    \A skip_exhausted \in BOOLEAN, pick \in Picks :
        LET r == get_next_key(api_keys, strategy, usage_trackers, current_index, now,
                              skip_exhausted, pick)
        IN  /\ r.key \in Keys
            /\ r.slept \in {0, BackoffSeconds}
            /\ r.slept = BackoffSeconds => (skip_exhausted /\ AllExhausted)
            /\ DOMAIN r.tr = Keys
            /\ last.op = "next" => (last.key \in Keys /\ last.slept \in {0, BackoffSeconds})

\* C1 witness: a get_next_key(skip_exhausted = True) call with every key
\* exhausted has blocked for the backoff interval and returned a key.
C1_Witness ==
    /\ last.op = "next" /\ last.skip /\ last.slept = BackoffSeconds
    /\ AllExhausted /\ Len(api_keys) >= 2
    /\ last.key \in Keys

\* The keys returned by n consecutive get_next_key calls from the given
\* trackers and cursor, the i-th call with flag flags[i].
RECURSIVE ConsecutiveKeys(_, _, _, _, _)
ConsecutiveKeys(tr, idx, t, flags, i) ==
    IF i > Len(flags) THEN <<>>
    ELSE LET r == get_next_key(api_keys, strategy, tr, idx, t, flags[i], 0)
         IN  <<r.key>> \o ConsecutiveKeys(r.tr, r.idx, r.now, flags, i + 1)

\* C2: under round-robin with no key exhausted, from every reachable state
\* (so from every cursor position) N consecutive get_next_key calls return
\* each of the N keys exactly once.
C2_RoundRobinCycle ==
    (strategy = ROUND_ROBIN /\ NoneExhausted) =>
        \A flags \in [1..Len(api_keys) -> BOOLEAN] :
            LET w == ConsecutiveKeys(usage_trackers, current_index, now, flags, 1)
            IN  /\ Len(w) = Len(api_keys)
                /\ {w[i] : i \in 1..Len(w)} = Keys

\* C2 witness: a round-robin selection has happened on two or more keys,
\* none exhausted, and the cursor is in the middle of a cycle.
C2_Witness ==
    /\ strategy = ROUND_ROBIN /\ NoneExhausted /\ Len(api_keys) >= 2
    /\ last.op = "next" /\ current_index > 0

\* C3 as stated: with two or more keys, get_next_key(skip_exhausted = True)
\* right after mark_key_exhausted(k) returns a key other than k.
C3_MarkThenNextNeverReturnsKey ==
    [][(last.op = "mark" /\ last'.op = "next" /\ last'.skip /\ Len(api_keys) >= 2)
           => last'.key # last.key]_vars

\* C3 amended: get_next_key(skip_exhausted = True) right after
\* mark_key_exhausted(k) returns a key other than k whenever another
\* configured key is not exhausted.
C3_MarkThenNextAvoidsKey ==
    [][(/\ last.op = "mark" /\ last'.op = "next" /\ last'.skip
        /\ \E j \in Keys \ {last.key} : ~usage_trackers[j].is_exhausted)
           => last'.key # last.key]_vars

\* C3 witness: a key was marked at this instant, another key is not
\* exhausted, and the get_next_key(skip_exhausted = True) that followed
\* returned that other key.
C3_Witness ==
    /\ last.op = "next" /\ last.skip /\ last.slept = 0
    /\ \E k \in Keys :
           /\ usage_trackers[k].is_exhausted
           /\ usage_trackers[k].backoff_until = now + BackoffSeconds
           /\ last.key # k
           /\ ~usage_trackers[last.key].is_exhausted

\* C4 as stated: a get_next_key call made after an exhausted key's
\* backoff_until has passed leaves that key not exhausted, with
\* requests_remaining = requests_limit.
C4_NextKeyRecoversAfterBackoff ==
    [][\A k \in Keys :
           (/\ last'.op = "next"
            /\ usage_trackers[k].is_exhausted
            /\ now > usage_trackers[k].backoff_until)
               => (/\ ~usage_trackers'[k].is_exhausted
                   /\ usage_trackers'[k].requests_remaining =
                          usage_trackers'[k].requests_limit)]_vars

\* C7 as stated: _update_key_usage with an integer minute-window remaining
\* value r leaves the key with requests_remaining = r and
\* is_exhausted = (r < 10).
C7_RecordUsageSetsRemaining ==
    [][(last'.op = "update" /\ last'.remaining # NoneVal)
           => (/\ usage_trackers'[last'.key].requests_remaining = last'.remaining
               /\ usage_trackers'[last'.key].is_exhausted =
                      (last'.remaining < ExhaustionThreshold))]_vars

\* C8 as stated: _update_key_usage with no parseable minute-window remaining
\* value raises nothing and changes no tracker and not the cursor.
C8_RecordUsageWithoutRemainingIsNoOp ==
    [][(last'.op = "update" /\ last'.remaining = NoneVal)
           => (/\ ~last'.raised
               /\ usage_trackers' = usage_trackers
               /\ current_index' = current_index)]_vars

\* C9: mark_key_exhausted(k), whatever the tracker held, leaves k exhausted
\* with backoff_until = now + backoff_seconds and every other tracker as it
\* was.
C9_MarkExhaustedSetsBackoff ==
    [][last'.op = "mark"
           => (/\ usage_trackers'[last'.key].is_exhausted
               /\ usage_trackers'[last'.key].backoff_until = now + BackoffSeconds
               /\ \A j \in Keys \ {last'.key} : usage_trackers'[j] = usage_trackers[j])]_vars

\* C9 witness: a key whose last observed count was not low (its
\* requests_remaining is at its limit) has been marked and is in backoff.
C9_Witness ==
    /\ last.op = "mark"
    /\ usage_trackers[last.key].is_exhausted
    /\ usage_trackers[last.key].backoff_until = now + BackoffSeconds
    /\ usage_trackers[last.key].requests_remaining = usage_trackers[last.key].requests_limit
    /\ \E j \in Keys \ {last.key} : ~usage_trackers[j].is_exhausted

----------------------------------------------------------------------------
(* Properties of generate_content *)

\* The calls of a step other than the usage records.
Calls(step) == SelectSeq(step, LAMBDA ev : ev.e # "update")

\* C5 as stated: one external call of generate_content makes at most two
\* HTTP posts, whatever the backend answers.
C5_AtMostTwoAttempts == req.posts <= 2

\* C6 as stated: when the first post ends in a 4xx other than 429 or in a
\* 200 without choices, whatever the body text, there is no second post, no
\* mark_key_exhausted call and no get_next_key call after the initial one.
C6_NonRetryableIsNotRetried ==
    (\/ req.first.status = 404
     \/ (req.first.status = 200 /\ ~req.first.choices))
        => (/\ req.posts <= 1
            /\ req.marks = 0
            /\ req.nexts = 1)

\* C10 as stated: when the first post returns 429 on key k, the step that
\* handles it calls mark_key_exhausted(k) and then
\* get_next_key(skip_exhausted = True) and goes on to a retry; the retry is
\* posted with the key returned, it is the last post of the request, and
\* the request ends in success when the retry returns a 200 with choices
\* and in an error when it returns anything but a 200.
C10_RateLimitRotatesAndRetriesOnce ==
    req.first.status = 429 =>
        /\ req.posts <= 2
        /\ req.posts = 1 =>
               LET c == Calls(req.step)
               IN  /\ req.pc = "retry429"
                   /\ Len(c) = 3
                   /\ c[1].e = "post" /\ c[1].key = req.first.key
                   /\ c[2].e = "mark" /\ c[2].key = req.first.key
                   /\ c[3].e = "next_skip" /\ c[3].key = req.api_key
        /\ req.posts = 2 =>
               /\ req.pc = "done"
               /\ req.step[1].e = "post"
               /\ req.step[1].key = req.api_key
               /\ (req.step[1].status = 200 /\ req.step[1].choices)
                      => req.result = "success"
               /\ req.step[1].status # 200 => req.result = "error"

\* The key the last get_next_key(skip_exhausted = True) call of a step
\* returned (UnknownKey when the step made no such call).
RECURSIVE SkipKey(_)
SkipKey(step) ==
    IF step = <<>> THEN UnknownKey
    ELSE IF step[Len(step)].e = "next_skip" THEN step[Len(step)].key
    ELSE SkipKey(SubSeq(step, 1, Len(step) - 1))

\* C11 as stated: when the first post of a request returns a status >= 500
\* on key k, the step that handles it calls get_next_key(skip_exhausted =
\* True) once and goes on to one retry, which is the last post of the
\* request, and no step of the request changes k's is_exhausted or
\* backoff_until.
C11_ServerErrorRotatesWithoutExhaustion ==
    [][req'.first.status >= 500 =>
           LET k == req'.first.key
               c == Calls(req'.step)
           IN  /\ usage_trackers'[k].is_exhausted = usage_trackers[k].is_exhausted
               /\ usage_trackers'[k].backoff_until = usage_trackers[k].backoff_until
               /\ req'.posts <= 2
               /\ req'.posts = 1 =>
                      /\ req'.pc = "retry5xx"
                      /\ Len(c) = 2
                      /\ c[1].e = "post" /\ c[2].e = "next_skip"
                      /\ c[2].key = req'.api_key]_vars

\* C12 as stated: when the first post of a request raises a transport
\* exception on key k, the step that handles it marks k exhausted and calls
\* get_next_key(skip_exhausted = True); exactly one more post follows, and
\* it is sent with the key that call returned.
C12_TransportErrorMarksAndRetriesOnce ==
    [][req'.first.status = 0 =>
           LET c == Calls(req'.step)
           IN  /\ req'.posts <= 2
               /\ req'.posts = 1 =>
                      /\ req'.pc = "post"
                      /\ Len(c) >= 3
                      /\ c[1].e = "post" /\ c[1].key = req'.first.key
                      /\ c[2].e = "mark" /\ c[2].key = req'.first.key
                      /\ c[3].e = "next_skip"
               /\ (req.posts = 1 /\ req'.posts = 2) =>
                      req'.step[1].key = SkipKey(req.step)]_vars

\* C13 as stated: a request that ends in success has, in the step that
\* returned, called _update_key_usage after the post that succeeded and
\* with the key of that post.
C13_SuccessRecordsUsage ==
    req.result = "success" =>
        \E i \in 1..Len(req.step), j \in 1..Len(req.step) :
            /\ i < j
            /\ req.step[i].e = "post" /\ req.step[i].status = 200
            /\ req.step[j].e = "update" /\ req.step[j].key = req.step[i].key

----------------------------------------------------------------------------
(* Further properties of the coordinator *)

\* Some key other than k is not exhausted.
OtherKeyAvailable(k) == \E j \in Keys \ {k} : ~usage_trackers[j].is_exhausted

\* C19 as stated: while some key is not exhausted, get_next_key with
\* skip_exhausted = False returns a key that is not exhausted; and after a
\* key was flagged by a usage record with a minute-window remaining value
\* below the threshold, or by mark_key_exhausted, the selection that follows
\* returns another key.
C19_SelectionAvoidsFlaggedKey ==
    [][(last'.op = "next" /\ ~last'.skip) =>
           /\ ~AllExhausted => ~usage_trackers'[last'.key].is_exhausted
           /\ (last.op = "mark" /\ OtherKeyAvailable(last.key))
                  => last'.key # last.key
           /\ (/\ last.op = "update"
               /\ last.remaining # NoneVal
               /\ last.remaining < ExhaustionThreshold
               /\ OtherKeyAvailable(last.key))
                  => last'.key # last.key]_vars

\* Every key is exhausted and no key's backoff_until has passed.
AllInBackoff ==
    \A k \in Keys :
        usage_trackers[k].is_exhausted /\ now <= usage_trackers[k].backoff_until

\* C20: when every key is exhausted and no backoff has elapsed,
\* get_next_key with skip_exhausted = False returns a configured key
\* without blocking, whatever the strategy and the draw.
C20_AllExhaustedStillReturnsKey ==
    /\ AllInBackoff =>
           \A pick \in Picks :
               LET r == get_next_key(api_keys, strategy, usage_trackers, current_index,
                                     now, FALSE, pick)
               IN  r.key \in Keys /\ r.slept = 0 /\ r.now = now
    /\ (last.op = "next" /\ ~last.skip) => (last.key \in Keys /\ last.slept = 0)

\* C20 witness: with two keys, both exhausted and in backoff, a
\* get_next_key(skip_exhausted = False) call has returned a key at once.
C20_Witness ==
    /\ last.op = "next" /\ ~last.skip /\ last.slept = 0
    /\ Len(api_keys) >= 2 /\ AllInBackoff
    /\ last.key \in Keys

----------------------------------------------------------------------------
(* Properties of the round-robin cycle with three keys *)

\* The first n entries of `order` are get_next_key calls.
FirstAreNext(n) ==
    Len(order) >= n /\ \A i \in 1..n : order[i].op = "next"

\* C17: on a fresh round-robin coordinator with keys k1, k2, k3 the first
\* get_next_key calls, with any flags, return k1, k2, k3 and then k1 again.
C17_FreshCycleFollowsRegistryOrder ==
    \A i \in 1..4 :
        FirstAreNext(i) => order[i].key = ThreeKeys[((i - 1) % 3) + 1]

\* C17 witness: four calls were made on the fresh coordinator and the
\* fourth returned k1.
C17_Witness ==
    FirstAreNext(4) /\ order[3].key = 3 /\ order[4].key = 1

\* Four get_next_key calls, then mark_key_exhausted(k2), then only
\* get_next_key(skip_exhausted = True) calls.
MarkedAfterFour ==
    /\ FirstAreNext(4)
    /\ Len(order) >= 5
    /\ order[5] = Entry("mark", 2, FALSE)
    /\ \A i \in 6..Len(order) : order[i].op = "next" /\ order[i].skip

----------------------------------------------------------------------------
(* Concurrent callers.                                                     *)

\* The keys the calls returned, in the order the lock was taken.
Returns == [i \in 1..Len(order) |-> order[i].key]

\* C14: with more concurrent callers of round-robin get_next_key than
\* there are keys and no key exhausted, in every interleaving every call
\* returns a configured key, no key comes twice within any window of N
\* consecutive selections (in the order the lock was taken), and when all
\* callers have returned every configured key was returned at least once.
C14_ConcurrentCallersShareTheCycle ==
    strategy = ROUND_ROBIN =>
        /\ \A i \in 1..Len(order) : Returns[i] \in Keys
        /\ \A i \in 1..Len(order), j \in 1..Len(order) :
               (i < j /\ j - i < Len(api_keys)) => Returns[i] # Returns[j]
        /\ (\A t \in Threads : threads[t].calls = 1 /\ threads[t].pc = "idle")
               => {Returns[i] : i \in 1..Len(order)} = Keys

\* C14 witness: round-robin over as many keys as the registry may hold,
\* and every one of the callers (one more than there are keys) has returned.
C14_Witness ==
    /\ strategy = ROUND_ROBIN
    /\ Len(api_keys) = MaxKeys
    /\ Len(order) = Cardinality(Threads)
    /\ \A t \in Threads : threads[t].pc = "idle" /\ threads[t].result \in Keys

\* The steps between taking the lock and leaving the with block.
InLockedSection(t) ==
    threads[t].pc \in {"locked", "sleep", "select", "advance", "compare"}

\* C15: every operation reads and writes the cursor and the trackers only
\* between taking and releasing the one lock, so at most one thread is in
\* such a section at a time, and whenever no call holds the lock the
\* cursor, the trackers and the returned keys are those of the calls run
\* one after another in the order they took the lock.
C15_OperationsAreSerialized ==
    /\ \A t \in Threads : InLockedSection(t) => lock = t
    /\ lock = NoThread =>
           /\ usage_trackers = serial.tr
           /\ current_index = serial.idx
           /\ now = serial.now
    /\ \A t \in Threads : threads[t].pc = "idle" => threads[t].result = threads[t].expect

\* C15 witness: one worker is inside get_next_key's selection with the
\* lock held while the other waits for the lock, after an earlier call
\* changed the trackers.
C15_Witness ==
    \E t \in Workers, u \in Workers :
        /\ threads[t].pc = "advance" /\ lock = t
        /\ threads[u].pc = "acquire"
        /\ \E k \in Keys : usage_trackers[k].is_exhausted

\* C16: with the workers calling get_next_key, _update_key_usage,
\* mark_key_exhausted and get_usage_stats concurrently under a fair
\* scheduler, every thread waiting for the lock eventually holds it and
\* every call eventually returns, also when a thread sleeps in the
\* all-keys-exhausted wait.
C16_EveryCallReturns ==
    \A t \in Workers :
        /\ (threads[t].pc = "acquire") ~> (lock = t)
        /\ (threads[t].pc # "idle") ~> (threads[t].pc = "idle")

\* C16 witness: one worker sleeps in the all-keys-exhausted wait, holding
\* the lock, while the other waits for the lock.
C16_Witness ==
    \E t \in Workers, u \in Workers :
        /\ threads[t].pc = "sleep" /\ lock = t
        /\ threads[u].pc = "acquire"

----------------------------------------------------------------------------
(* The all-keys-exhausted wait *)

\* C21: a get_next_key(skip_exhausted = True) call that finds no key
\* available blocks for the backoff duration exactly once (the clock
\* advances by backoff_seconds, not by more), evaluates the keys once more
\* at the time it wakes, and returns a configured key; every other call
\* does not block at all.
C21_WaitsOnceThenReturns ==
    [][last'.op = "next" =>
           LET first == AvailableKeys(api_keys, usage_trackers, now)
           IN  IF last'.skip /\ first.available_keys = <<>>
               THEN /\ last'.slept = BackoffSeconds
                    /\ now' = now + BackoffSeconds
                    /\ usage_trackers' = AvailableKeys(api_keys, first.tr, now').tr
                    /\ last'.key \in Keys
               ELSE /\ last'.slept = 0
                    /\ now' = now
                    /\ usage_trackers' = first.tr]_vars

\* C21 witness: a get_next_key(skip_exhausted = True) call found every key
\* exhausted, blocked for the backoff duration and returned a key.
C21_Witness ==
    /\ last.op = "next" /\ last.skip /\ last.slept = BackoffSeconds
    /\ now = 1 + BackoffSeconds
    /\ AllExhausted
    /\ last.key \in Keys

----------------------------------------------------------------------------
(* The least-used strategy *)

\* The position of a key in the registry.
Position(k) == CHOOSE i \in 1..Len(api_keys) : api_keys[i] = k

\* k is the first key in registry order with the highest requests_remaining
\* among the keys that are not exhausted in trackers tr.
FirstWithMostRemaining(k, tr) ==
    /\ ~tr[k].is_exhausted
    /\ \A j \in Keys :
           ~tr[j].is_exhausted =>
               /\ tr[j].requests_remaining <= tr[k].requests_remaining
               /\ Position(j) < Position(k) =>
                      tr[j].requests_remaining < tr[k].requests_remaining

\* C22: under the least-used strategy, a get_next_key call that has a
\* non-exhausted key to choose from returns the non-exhausted key with the
\* highest requests_remaining, the first in registry order among equals.
\* The counts are those the selection sees (after the call's evaluation of
\* the keys); they are also the counts before the call whenever every
\* non-exhausted key had a count then.
C22_LeastUsedPicksMostRemaining ==
    [][(last'.op = "next" /\ \E j \in Keys : ~usage_trackers'[j].is_exhausted) =>
           /\ FirstWithMostRemaining(last'.key, usage_trackers')
           /\ (\A j \in Keys : ~usage_trackers[j].is_exhausted =>
                                   usage_trackers[j].requests_remaining # NoneVal)
                  => FirstWithMostRemaining(last'.key, usage_trackers)]_vars

\* C22 witness: least-used has returned the second key, which is not
\* exhausted and has more requests remaining than the first, also
\* non-exhausted, key.
C22_Witness ==
    /\ strategy = LEAST_USED /\ Len(api_keys) >= 2
    /\ last.op = "next" /\ last.key = api_keys[2]
    /\ ~usage_trackers[api_keys[1]].is_exhausted
    /\ ~usage_trackers[api_keys[2]].is_exhausted
    /\ usage_trackers[api_keys[1]].requests_remaining
           < usage_trackers[api_keys[2]].requests_remaining

----------------------------------------------------------------------------
(* Construction *)

\* A string that is empty or holds whitespace only.
Blank(s) == \A j \in 1..Len(s) : s[j] \in Whitespace

Constructed == last.op \in {"APIKeyRotator", "SAIAProvider"}

\* The place where the trimmed value k first occurs in the given list.
FirstAt(given, k) ==
    CHOOSE n \in 1..Len(given) :
        Strip(given[n]) = k /\ \A m \in 1..(n - 1) : Strip(given[m]) # k

\* keys are the distinct, non-blank, trimmed values of the given list, in
\* the order in which they first occur.
DistinctTrimmedInOrder(given, keys) ==
    /\ \A i \in 1..Len(keys) : ~Blank(keys[i]) /\ keys[i] = Strip(keys[i])
    /\ \A i \in 1..Len(keys), j \in 1..Len(keys) : i # j => keys[i] # keys[j]
    /\ {keys[i] : i \in 1..Len(keys)}
           = {Strip(given[n]) : n \in {m \in 1..Len(given) : ~Blank(given[m])}}
    /\ \A i \in 1..Len(keys), j \in 1..Len(keys) :
           i < j => FirstAt(given, keys[i]) < FirstAt(given, keys[j])

\* C23 as stated: for every given list with at least one non-blank entry,
\* construction succeeds and the registry's key sequence is the distinct,
\* non-blank, trimmed values in order of first occurrence.
C23_ConstructionKeepsDistinctTrimmedKeys ==
    (Constructed /\ \E n \in 1..Len(last.given) : ~Blank(last.given[n])) =>
        /\ last.raised = "none"
        /\ DistinctTrimmedInOrder(last.given, api_keys)

\* C24: construction raises ValueError exactly when the given list is
\* empty or holds blank entries only, and then there is no coordinator (no
\* keys, no trackers) and no provider.
C24_ValueErrorIffNoUsableKey ==
    Constructed =>
        /\ (last.raised = "ValueError") <=> (\A n \in 1..Len(last.given) : Blank(last.given[n]))
        /\ last.raised = "ValueError" =>
               (api_keys = <<>> /\ DOMAIN usage_trackers = {} /\ req = IdleRequest)

\* C24 witness: a provider was asked for with a non-empty list of blank
\* entries, one of them made of whitespace, and ValueError was raised.
C24_Witness ==
    /\ last.op = "SAIAProvider"
    /\ Len(last.given) >= 2
    /\ \E n \in 1..Len(last.given) : last.given[n] # <<>>
    /\ \A n \in 1..Len(last.given) : Blank(last.given[n])
    /\ last.raised = "ValueError"

\* C30 as stated, for construction: with valid keys the constructor gives
\* every configured key exactly one tracker holding the defaults (not
\* exhausted, backoff_until at the epoch), and no other tracker.
C30_ConstructionCreatesOneTrackerPerKey ==
    (Constructed /\ \E n \in 1..Len(last.given) : ~Blank(last.given[n])) =>
        /\ api_keys # <<>>
        /\ DOMAIN usage_trackers = {api_keys[i] : i \in 1..Len(api_keys)}
        /\ \A k \in DOMAIN usage_trackers :
               /\ ~usage_trackers[k].is_exhausted
               /\ usage_trackers[k].backoff_until = 0

----------------------------------------------------------------------------
(* The aggregate statistics *)

\* C25: get_usage_stats changes neither the cursor nor any tracker field
\* (it does not restore keys whose backoff has elapsed), nor the keys, the
\* strategy or the clock, and a second call right after it returns the
\* same aggregate.
C25_StatsHasNoSideEffects ==
    [][last'.op = "stats" =>
           /\ usage_trackers' = usage_trackers
           /\ current_index' = current_index
           /\ api_keys' = api_keys /\ strategy' = strategy /\ now' = now
           /\ get_usage_stats(api_keys', strategy', usage_trackers', now').stats
                  = last'.stats]_vars

\* C25 witness: get_usage_stats was called when a key was exhausted and
\* its backoff had elapsed, and the key is still exhausted.
C25_Witness ==
    /\ last.op = "stats"
    /\ \E k \in Keys :
           usage_trackers[k].is_exhausted /\ now > usage_trackers[k].backoff_until

\* The sum of requests_remaining over the non-exhausted keys among the
\* first n keys of the registry.
RECURSIVE RemainingOfFirst(_)
RemainingOfFirst(n) ==
    IF n = 0 THEN 0
    ELSE RemainingOfFirst(n - 1)
             + (IF usage_trackers[api_keys[n]].is_exhausted THEN 0
                ELSE usage_trackers[api_keys[n]].requests_remaining)

\* C26 as stated: in every reachable state get_usage_stats returns
\* total_keys = the number of configured keys, exhausted_keys = the number
\* of exhausted trackers, the configured strategy, and
\* total_remaining_requests = the sum of requests_remaining over the
\* non-exhausted keys.
C26_StatsReportsTheRegistry ==
    LET s == get_usage_stats(api_keys, strategy, usage_trackers, now).stats
    IN  /\ ~s.raised
        /\ s.total_keys = Len(api_keys)
        /\ s.exhausted_keys = Cardinality({k \in Keys : usage_trackers[k].is_exhausted})
        /\ s.strategy = strategy
        /\ s.total_remaining_requests = RemainingOfFirst(Len(api_keys))

\* The same, for the states in which every non-exhausted key has a count.
StatsReportsTheCountedRegistry ==
    (\A k \in Keys : ~usage_trackers[k].is_exhausted =>
                         usage_trackers[k].requests_remaining # NoneVal)
        => C26_StatsReportsTheRegistry

----------------------------------------------------------------------------
(* Credentials in what the caller sees *)

\* text holds the whole of key somewhere.
Holds(text, key) ==
    \E i \in 0..(Len(text) - Len(key)) : SubSeq(text, i + 1, i + Len(key)) = key

\* C27 as stated: whatever the length of the key, no text that reaches the
\* caller (api_key_used, error text) holds the full key, and api_key_used
\* shows a proper prefix of it only.
C27_NoFullCredentialSurfaces ==
    last.op \in {"response", "error"} =>
        /\ ~Holds(last.text, last.api_key)
        /\ last.op = "response" =>
               \E n \in 0..(Len(last.api_key) - 1) :
                   last.text = SubSeq(last.api_key, 1, n) \o <<".", ".", ".">>

\* The same for keys longer than the ten characters shown.
LongKeysAreTruncated ==
    Len(api_keys[1]) > ShownChars => C27_NoFullCredentialSurfaces

----------------------------------------------------------------------------
(* The header parser *)

\* The field each recognized count header is stored in (lines 118-126).
CountFields ==
    [name \in RateLimitHeaderNames \ {"ratelimit-reset"} |->
        CASE name = "x-ratelimit-limit-minute" -> "limit_minute"
          [] name = "x-ratelimit-limit-hour" -> "limit_hour"
          [] name = "x-ratelimit-limit-day" -> "limit_day"
          [] name = "x-ratelimit-remaining-minute" -> "remaining_minute"
          [] name = "x-ratelimit-remaining-hour" -> "remaining_hour"
          [] name = "x-ratelimit-remaining-day" -> "remaining_day"]

\* The number a header value stands for in the examples, NoneVal when the
\* value is not an integer.
ExpectedInt(v) ==
    CASE v = <<"1", "0", "0", "0">> -> 1000
      [] v = <<"9", "9", "9">> -> 999
      [] v = <<"1", "8", "0", "0">> -> 1800
      [] OTHER -> NoneVal

\* The mapping h with only the header name kept.
Only(h, name) == [n \in DOMAIN h \cap {name} |-> h[n]]

\* C28: _parse_rate_limit_headers never raises; a recognized header whose
\* value is an integer gives that integer in its field (limit-minute 1000
\* and remaining-minute 999 give 1000 and 999), one whose value does not
\* convert leaves its field None, an absent one leaves it None, every
\* field depends on its own header only, and a reset header with a numeric
\* value gives a reset time (now plus that many seconds), None otherwise.
C28_ParserNeverRaises ==
    last.op = "parse" =>
        LET h == last.headers
            r == last.result
        IN  /\ last.raised = "none"
            /\ \A name \in DOMAIN CountFields :
                   /\ r[CountFields[name]] =
                          (IF name \in DOMAIN h THEN ExpectedInt(h[name]) ELSE NoneVal)
                   /\ r[CountFields[name]] =
                          _parse_rate_limit_headers(Only(h, name), last.time)[CountFields[name]]
            /\ r.reset_time =
                   (IF "ratelimit-reset" \in DOMAIN h
                    THEN CASE h["ratelimit-reset"] = <<"x">> -> NoneVal
                           [] h["ratelimit-reset"] = <<"1", ".", "5">> -> last.time + 1
                           [] OTHER -> last.time + ExpectedInt(h["ratelimit-reset"])
                    ELSE NoneVal)

\* C28 witness: a mapping with limit-minute 1000, remaining-minute 999 and
\* a reset header, together with a recognized header that is not a number,
\* was parsed: the three fields are set and the fourth is None.
C28_Witness ==
    /\ last.op = "parse"
    /\ DOMAIN last.headers = ParsedNames \ {"retry-after"}
    /\ last.headers["x-ratelimit-limit-minute"] = <<"1", "0", "0", "0">>
    /\ last.headers["x-ratelimit-remaining-minute"] = <<"9", "9", "9">>
    /\ last.headers["ratelimit-reset"] = <<"1", "8", "0", "0">>
    /\ last.headers["x-ratelimit-limit-day"] = <<"x">>
    /\ last.result.limit_minute = 1000
    /\ last.result.remaining_minute = 999
    /\ last.result.reset_time # NoneVal
    /\ last.result.limit_day = NoneVal

----------------------------------------------------------------------------
(* Properties of the exhaustion flag and its backoff deadline *)

\* A step flags key k when it leaves k exhausted and either k was not
\* exhausted before, or the step is mark_key_exhausted(k), or it is an
\* _update_key_usage(k, ...) that changed k's tracker and returned (a call
\* that raises at the comparison of line 170 assigns no flag).
Flags(k) ==
    /\ usage_trackers'[k].is_exhausted
    /\ \/ ~usage_trackers[k].is_exhausted
       \/ last'.op = "mark" /\ last'.key = k
       \/ /\ last'.op = "update"
          /\ last'.key = k
          /\ ~last'.raised
          /\ usage_trackers'[k] # usage_trackers[k]

----------------------------------------------------------------------------
(* Recovery from backoff *)

\* C31: the passage of time, _update_key_usage without a minute-window
\* remaining header and get_usage_stats never turn is_exhausted from true
\* to false; a step that clears the flag of a key is a get_next_key call
\* that runs after the key's backoff_until has passed.
C31_RecoveryIsLazy ==
    [][\A k \in Keys :
           (usage_trackers[k].is_exhausted /\ ~usage_trackers'[k].is_exhausted)
               => (last'.op = "next" /\ now' > usage_trackers[k].backoff_until)]_vars

\* C31 witness: a key was marked, its backoff deadline has passed, and the
\* step just taken (time passing, a usage record without headers, or the
\* statistics) has left it exhausted.
C31_Witness ==
    /\ last.op \in {"tick", "update", "stats"}
    /\ last.op = "update" => (last.remaining = NoneVal /\ last.key \in Keys
                              /\ usage_trackers[last.key].is_exhausted)
    /\ \E k \in Keys :
           /\ usage_trackers[k].is_exhausted
           /\ usage_trackers[k].backoff_until > 0
           /\ now > usage_trackers[k].backoff_until

\* C32 as stated: get_next_key leaves requests_remaining of every key that
\* is not exhausted as it was, and a second get_next_key right after a
\* first changes no tracker.
C32_NextKeyKeepsObservedCounts ==
    [][last'.op = "next" =>
           /\ \A k \in Keys :
                  ~usage_trackers[k].is_exhausted
                      => usage_trackers'[k].requests_remaining
                             = usage_trackers[k].requests_remaining
           /\ last.op = "next" => usage_trackers' = usage_trackers]_vars

\* The part of C32 that holds: a second get_next_key right after a first
\* changes no tracker.
SecondNextKeyChangesNoTracker ==
    [][(last.op = "next" /\ last'.op = "next")
           => usage_trackers' = usage_trackers]_vars

----------------------------------------------------------------------------
(* Properties of the coordinator with requests in flight *)

C34_BackoffIsMonotonic ==
    [][/\ now' >= now
       /\ \A k \in Keys :
              /\ usage_trackers'[k].backoff_until >= usage_trackers[k].backoff_until
              /\ (last'.op = "mark" /\ last'.key = k)
                     => usage_trackers'[k].backoff_until = now + BackoffSeconds]_vars

\* C34 witness: a key that was in backoff has been marked again at a later
\* time, and its deadline has moved forward to now + backoff_seconds.
C34_Witness ==
    /\ last.op = "mark"
    /\ last.deadline >= now
    /\ last.deadline < usage_trackers[last.key].backoff_until
    /\ usage_trackers[last.key].backoff_until = now + BackoffSeconds

\* The number of candidates of a selection that left the trackers tr: the
\* keys that are not exhausted, or every key when all are.
CandidateCount(tr) ==
    LET live == Cardinality({k \in Keys : ~tr[k].is_exhausted})
    IN  IF live = 0 THEN Len(api_keys) ELSE live

\* C35: a round-robin get_next_key moves the cursor one slot on, wrapping
\* at the number of candidates; the cursor a call finds is the one the
\* call before it left, and _update_key_usage, mark_key_exhausted,
\* get_usage_stats and the passage of time leave it as it is.
C35_CursorAdvancesByOne ==
    [][/\ (last'.op = "next" /\ strategy = ROUND_ROBIN)
              => current_index' = ((current_index % CandidateCount(usage_trackers')) + 1)
                                      % CandidateCount(usage_trackers')
       /\ last'.op \in {"update", "mark", "stats", "tick"}
              => current_index' = current_index]_vars

\* C35 witness: under round-robin with two or more keys the cursor stands
\* past its first slot after a usage record, a mark or the statistics, the
\* key it was moved for being still not exhausted.
C35_Witness ==
    /\ strategy = ROUND_ROBIN
    /\ Len(api_keys) >= 2
    /\ current_index > 0
    /\ last.op \in {"update", "mark", "stats"}
    /\ \E k \in Keys : ~usage_trackers[k].is_exhausted

----------------------------------------------------------------------------
(* The key of a rotation retry *)

\* The post of the step just taken, if it made one.
FailedPosts == {i \in 1..Len(req.step) : req.step[i].e = "post"}

\* C36 as stated: when a post has failed and generate_content is about to
\* post again (after a 429, after a status >= 500, or after a retryable
\* exception), with two or more keys of which another than the failed one
\* is not exhausted, the key of the coming post differs from the key of the
\* failed one, under each strategy.
C36_RetryUsesAnotherKey ==
    (req.pc \in {"retry429", "retry5xx", "post"} /\ FailedPosts # {}) =>
        \A i \in FailedPosts :
            (/\ Len(api_keys) >= 2
             /\ \E j \in Keys \ {req.step[i].key} : ~usage_trackers[j].is_exhausted)
                => req.api_key # req.step[i].key

\* The part of C36 that holds: under round-robin the retry is sent with
\* another key.
RoundRobinRetryUsesAnotherKey ==
    strategy = ROUND_ROBIN => C36_RetryUsesAnotherKey

\* After a 429 or a retryable exception the failed key was marked, and the
\* retry is sent with another key under every strategy.
MarkedRetryUsesAnotherKey ==
    (\E i \in 1..Len(req.step) : req.step[i].e = "mark") => C36_RetryUsesAnotherKey

----------------------------------------------------------------------------
(* Properties of the PRD *)

AllDone(p) == \A i \in 1..Len(p.tasks) : p.tasks[i].status = DONE

\* C37 as stated: for a PRD with at least one task, in every state reached
\* by mark_task_in_progress, mark_task_done, mark_task_failed and
\* reset_task, passes = True implies that every task has status DONE.
C37_PassesImpliesAllDone ==
    (Len(prd.tasks) >= 1 /\ prd.passes) => AllDone(prd)

\* The part of C37 that holds: right after mark_task_done the flag says
\* whether every task is done.
PassesAfterMarkDone ==
    (last.op = "mark_task_done" /\ last.result) => (prd.passes <=> AllDone(prd))

\* The task at position i is the first of its status, and when it is
\* pending no task is in progress.
IsNextTask(p, i) ==
    /\ p.tasks[i].status \in {IN_PROGRESS, PENDING}
    /\ \A j \in 1..(i - 1) : p.tasks[j].status # p.tasks[i].status
    /\ p.tasks[i].status = PENDING
           => \A j \in 1..Len(p.tasks) : p.tasks[j].status # IN_PROGRESS

\* What get_next_task may return for the PRD p: the first task in progress,
\* otherwise the first pending task, otherwise None.
ReturnsNextTask(p, result) ==
    IF result = NoneVal
    THEN \A i \in 1..Len(p.tasks) : p.tasks[i].status \notin {IN_PROGRESS, PENDING}
    ELSE \E i \in 1..Len(p.tasks) : p.tasks[i].id = result /\ IsNextTask(p, i)

\* A task that was FAILED can be returned again after the step.
Reopened(i) ==
    /\ prd.tasks[i].status = FAILED
    /\ prd'.tasks[i].status \in {IN_PROGRESS, PENDING}

\* C38 as stated: get_next_task returns the first task in list order with
\* status IN_PROGRESS if there is one, otherwise the first with status
\* PENDING, otherwise None, never a task that is DONE, FAILED or BLOCKED;
\* and a failed task can be returned again only after reset_task.
C38_NextTaskSkipsFailedUntilReset ==
    [][/\ last'.op = "get_next_task" => ReturnsNextTask(prd, last'.result)
       /\ \A i \in 1..Len(prd.tasks) :
              Reopened(i) => (last'.op = "reset_task"
                              /\ last'.task_id = prd.tasks[i].id)]_vars

\* C38 amended: get_next_task returns the first task in progress, otherwise
\* the first pending task, otherwise None, never a task that is DONE,
\* FAILED or BLOCKED; a failed task can be returned again only after
\* reset_task or mark_task_in_progress was called with its id.
C38_NextTaskSkipsFailedUntilReopened ==
    [][/\ last'.op = "get_next_task" => ReturnsNextTask(prd, last'.result)
       /\ \A i \in 1..Len(prd.tasks) :
              Reopened(i) => (/\ last'.op \in {"reset_task", "mark_task_in_progress"}
                              /\ last'.task_id = prd.tasks[i].id)]_vars

\* C38 witness: get_next_task has passed over a failed task and a done task
\* and returned a pending task that comes after the failed one.
C38_Witness ==
    /\ last.op = "get_next_task"
    /\ \E i \in 1..Len(prd.tasks), j \in 1..Len(prd.tasks) :
           /\ j < i
           /\ prd.tasks[j].status \in {FAILED, DONE, BLOCKED}
           /\ prd.tasks[i].status = PENDING
           /\ last.result = prd.tasks[i].id

----------------------------------------------------------------------------
(* Properties of the Ralph loop *)

\* The increments the loop has made, and the most it may make.
Increments == prd.iteration - loop.start

IncrementsAllowed ==
    IF prd.max_iterations > loop.start THEN prd.max_iterations - loop.start ELSE 0

\* C39: should_continue() is False whenever passes is True, the iteration
\* has reached max_iterations or no task is PENDING or IN_PROGRESS; every
\* increment_iteration adds exactly one to the iteration; the loop makes
\* at most max_iterations - iteration increments, and it reaches
\* should_continue() = False.
C39_LoopTerminates ==
    /\ []((\/ prd.passes
           \/ prd.iteration >= prd.max_iterations
           \/ \A i \in 1..Len(prd.tasks) : prd.tasks[i].status \notin {PENDING, IN_PROGRESS})
              => ~should_continue(prd))
    /\ [][LoopIncrement => prd'.iteration = prd.iteration + 1]_vars
    /\ [](Increments <= IncrementsAllowed)
    /\ <>(loop.pc = "stopped" /\ ~should_continue(prd))

\* C39 witness: the loop has stopped at the iteration limit after as many
\* increments as it was allowed, more than one, with a task still waiting
\* and the flag not set.
C39_Witness ==
    /\ loop.pc = "stopped"
    /\ Increments = IncrementsAllowed
    /\ Increments >= 2
    /\ ~prd.passes
    /\ get_next_task(prd) # NoneVal

====
